---- MODULE Spec2Model ----
(***************************************************************************)
(* Model of synapse/handlers/e2e_keys.py (E2eKeysHandler): the one-time    *)
(* key upload / claim protocol and the cross-signing key upload protocol.  *)
(*                                                                         *)
(* JSON values are tagged records: [t |-> "str", v |-> s] for a string and *)
(* [t |-> "dict", v |-> f] for an object, f a function from field names to *)
(* strings.  A Python dict is a function; `k in d` is k \in DOMAIN d.      *)
(***************************************************************************)
EXTENDS Integers, FiniteSets, Sequences, TLC

VARIABLES
    otk,          \* store: user -> device -> (<<algorithm, key_id>> -> json text)
    device_keys,  \* store: user -> device -> device keys object, or NoDeviceKeys
    ssk,          \* store: user -> self-signing key info, or None
    usk,          \* store: user -> user-signing key info, or None
    last,         \* the most recent handler call: its request and its outcome
    claimed,      \* one-time keys returned by claims so far (history)
    inflight      \* caller -> the call it has in progress, step by step

vars == <<otk, device_keys, ssk, usk, last, claimed, inflight>>

(***************************************************************************)
(* Bounds of the model.                                                    *)
(***************************************************************************)
MaxUploadKeys == 1     \* one_time_keys entries in one upload request
MaxClaimed == 1        \* claimed keys remembered by the history variable
MaxBatchKeys == 2      \* one_time_keys entries in one upload of a batch

(***************************************************************************)
(* Users, devices, key ids and key values.                                 *)
(***************************************************************************)
LocalUsers == {"@boris:test"}
RemoteUsers == {"@rita:remote"}
Devices == {"xyz"}
RemoteDevices == {"rdev"}
Algorithms == {"alg1", "alg2"}
\* "alg1:k1", "alg1:k2", "alg2:k3" after key_id.split(":")
OneTimeKeyIds == {<<"alg1", "k1">>, <<"alg1", "k2">>, <<"alg2", "k3">>}

Str(s) == [t |-> "str", v |-> s]
Dict(f) == [t |-> "dict", v |-> f]
KeyObjects ==
    { [key |-> "key2", signatures |-> "sig1"],
      [key |-> "key2", signatures |-> "sig2"],
      [key |-> "key3"] }
OneTimeKeyValues == {Str("key1"), Str("key2")} \cup {Dict(f) : f \in KeyObjects}

NoDeviceKeys == "none"
DeviceKeyObjects == {"dk1"}

\* dict.pop(field, None) on a copy
Pop(d, field) == [x \in (DOMAIN d) \ {field} |-> d[x]]

\* the sequences that list every element of S once: the orders in which a
\* dict can be iterated, or in which concurrent calls can complete
Orders(S) ==
    {o \in [1..Cardinality(S) -> S] :
        \A i, j \in DOMAIN o : o[i] = o[j] => i = j}

\* partial functions from a subset of K (at most n elements) to V
PartialFns(K, V, n) ==
    UNION { [S -> V] : S \in {T \in SUBSET K : Cardinality(T) <= n} }

\* canonicaljson.encode_canonical_json(...).decode('ascii'): the stored text
encode_canonical_json(value) == [json |-> value]
\* json.loads
json_loads(text) == text.json

\* a variant that compares objects with their signatures left in
_one_time_keys_match_KeepSignatures(old_key_json, new_key) ==
    LET old_key == json_loads(old_key_json) IN
    old_key.t = new_key.t /\ old_key.v = new_key.v

\* a variant that applies the signature-stripping comparison to objects only
\* and lets anything else through
_one_time_keys_match_ObjectsOnly(old_key_json, new_key) ==
    LET old_key == json_loads(old_key_json) IN
    IF old_key.t # "dict" \/ new_key.t # "dict"
    THEN TRUE
    ELSE Pop(old_key.v, "signatures") = Pop(new_key.v, "signatures")

(***************************************************************************)
(* _one_time_keys_match(old_key_json, new_key)                             *)
(***************************************************************************)
_one_time_keys_match(old_key_json, new_key) ==
    LET old_key == json_loads(old_key_json) IN
    IF old_key.t # "dict" \/ new_key.t # "dict"
    THEN old_key.t = new_key.t /\ old_key.v = new_key.v
    ELSE Pop(old_key.v, "signatures") = Pop(new_key.v, "signatures")

(***************************************************************************)
(* The key store (synapse.storage, end-to-end keys): one-time keys.        *)
(***************************************************************************)
\* store.get_e2e_one_time_keys(user_id, device_id, key_ids)
get_e2e_one_time_keys(user_id, device_id, key_ids) ==
    LET pool == otk[user_id][device_id] IN
    [k \in {x \in DOMAIN pool : x[2] \in key_ids} |-> pool[k]]

\* store.add_e2e_one_time_keys(user_id, device_id, time_now, new_keys): the pool after
add_e2e_one_time_keys(user_id, device_id, new_keys) ==
    LET pool == otk[user_id][device_id] IN
    [k \in (DOMAIN pool) \cup (DOMAIN new_keys) |->
        IF k \in DOMAIN new_keys THEN new_keys[k] ELSE pool[k]]

\* store.count_e2e_one_time_keys(user_id, device_id) on a pool: algorithm -> count
count_e2e_one_time_keys(pool) ==
    [a \in {k[1] : k \in DOMAIN pool} |->
        Cardinality({k \in DOMAIN pool : k[1] = a})]

\* store.set_e2e_device_keys(...): whether the stored object changes
set_e2e_device_keys_changed(user_id, device_id, new_device_keys) ==
    device_keys[user_id][device_id] # new_device_keys

\* the entries of a claim's local_query for which the pool holds a key
Claimable(local_query) ==
    {q \in local_query :
        \E k \in DOMAIN otk[q[1]][q[2]] : k[1] = q[3]}

\* store.claim_e2e_one_time_keys(query_list): every way of picking one stored
\* key of the requested algorithm per entry; a picked key is deleted
ClaimChoices(local_query) ==
    { c \in [Claimable(local_query) -> OneTimeKeyIds] :
        \A q \in DOMAIN c : c[q] \in DOMAIN otk[q[1]][q[2]] /\ c[q][1] = q[3] }

\* the pools after the keys picked by c are deleted
PoolsAfterClaim(c) ==
    [u \in DOMAIN otk |-> [d \in DOMAIN otk[u] |->
        LET gone == {c[q] : q \in {x \in DOMAIN c : x[1] = u /\ x[2] = d}} IN
        [k \in (DOMAIN otk[u][d]) \ gone |-> otk[u][d][k]]]]

(***************************************************************************)
(* E2eKeysHandler._upload_one_time_keys_for_user                           *)
(***************************************************************************)
\* the loop over key_list, in the order of one_time_keys.items(): the keys
\* staged in new_keys when it ends, and whether it ended in the raise of
\* SynapseError(400, "One time key ... already exists. ...")
RECURSIVE ExamineKeys(_, _, _, _)
ExamineKeys(existing_key_map, one_time_keys, key_list, new_keys) ==
    IF key_list = << >> THEN [raised |-> FALSE, new_keys |-> new_keys]
    ELSE LET k == Head(key_list) IN
         IF k \in DOMAIN existing_key_map
         THEN IF ~_one_time_keys_match(existing_key_map[k], one_time_keys[k])
              THEN [raised |-> TRUE, new_keys |-> new_keys]
              ELSE ExamineKeys(existing_key_map, one_time_keys,
                               Tail(key_list), new_keys)
         ELSE ExamineKeys(existing_key_map, one_time_keys, Tail(key_list),
                          (k :> encode_canonical_json(one_time_keys[k])) @@ new_keys)

\* the outcome of _upload_one_time_keys_for_user: raised, and the pool after
UploadOneTimeKeys(user_id, device_id, one_time_keys, key_list) ==
    LET existing_key_map ==
            get_e2e_one_time_keys(user_id, device_id,
                                  {key_list[i][2] : i \in DOMAIN key_list})
        examined == ExamineKeys(existing_key_map, one_time_keys, key_list, << >>)
    IN  [raised |-> examined.raised,
         pool |-> IF examined.raised THEN otk[user_id][device_id]
                  ELSE add_e2e_one_time_keys(user_id, device_id, examined.new_keys)]

NoResult == [none |-> TRUE]

UploadCalls_NotifyAlways(dk, changed, one_time_keys, raised) ==
    (IF dk # NoDeviceKeys
     THEN <<"set_e2e_device_keys", "notify_device_update">>
     ELSE << >>)
    \o (IF DOMAIN one_time_keys # {}
        THEN <<"get_e2e_one_time_keys">>
             \o (IF raised THEN << >> ELSE <<"add_e2e_one_time_keys">>)
        ELSE << >>)
    \o (IF raised THEN << >>
        ELSE <<"check_device_registered", "count_e2e_one_time_keys">>)

UploadCalls_CheckOnlyWithKeys(dk, changed, one_time_keys, raised) ==
    (IF dk # NoDeviceKeys
     THEN <<"set_e2e_device_keys">>
          \o (IF changed THEN <<"notify_device_update">> ELSE << >>)
     ELSE << >>)
    \o (IF DOMAIN one_time_keys # {}
        THEN <<"get_e2e_one_time_keys">>
             \o (IF raised THEN << >> ELSE <<"add_e2e_one_time_keys">>)
        ELSE << >>)
    \o (IF raised THEN << >>
        ELSE IF dk # NoDeviceKeys \/ DOMAIN one_time_keys # {}
        THEN <<"check_device_registered", "count_e2e_one_time_keys">>
        ELSE <<"count_e2e_one_time_keys">>)

\* the calls upload_keys_for_user makes on the store and the device handler,
\* in the order it makes them; `raised`: the one-time keys were refused
UploadCalls(dk, changed, one_time_keys, raised) ==
    (IF dk # NoDeviceKeys
     THEN <<"set_e2e_device_keys">>
          \o (IF changed THEN <<"notify_device_update">> ELSE << >>)
     ELSE << >>)
    \o (IF DOMAIN one_time_keys # {}
        THEN <<"get_e2e_one_time_keys">>
             \o (IF raised THEN << >> ELSE <<"add_e2e_one_time_keys">>)
        ELSE << >>)
    \o (IF raised THEN << >>
        ELSE <<"check_device_registered", "count_e2e_one_time_keys">>)

\* a variant that inserts each new key when the loop meets it
upload_keys_for_user_InsertAsExamined(user_id, device_id, keys, key_list) ==
    LET dk == keys.device_keys
        changed == dk # NoDeviceKeys
                   /\ set_e2e_device_keys_changed(user_id, device_id, dk)
        one_time_keys == keys.one_time_keys
        examined == ExamineKeys(
                        get_e2e_one_time_keys(user_id, device_id,
                                              {key_list[i][2] : i \in DOMAIN key_list}),
                        one_time_keys, key_list, << >>)
        pool_after == add_e2e_one_time_keys(user_id, device_id, examined.new_keys)
    IN
    /\ key_list \in Orders(DOMAIN one_time_keys)
    /\ device_keys' = IF dk # NoDeviceKeys
                      THEN [device_keys EXCEPT ![user_id][device_id] = dk]
                      ELSE device_keys
    /\ otk' = [otk EXCEPT ![user_id][device_id] = pool_after]
    /\ last' = [op |-> "upload_keys_for_user", user |-> user_id,
                device |-> device_id, req |-> keys,
                status |-> IF examined.raised THEN 400 ELSE 200,
                res |-> IF examined.raised THEN NoResult
                        ELSE [one_time_key_counts |->
                                 count_e2e_one_time_keys(pool_after)],
                notified |-> changed, checked |-> ~examined.raised,
                calls |-> UploadCalls(dk, changed, one_time_keys,
                                      examined.raised)]
    /\ UNCHANGED <<ssk, usk>>

(***************************************************************************)
(* E2eKeysHandler.upload_keys_for_user(user_id, device_id, keys)           *)
(* keys = [device_keys |-> object or NoDeviceKeys, one_time_keys |-> dict] *)
(* key_list: the entries of one_time_keys in the order of the dict         *)
(***************************************************************************)
upload_keys_for_user(user_id, device_id, keys, key_list) ==
    LET dk == keys.device_keys
        \* set_e2e_device_keys and notify_device_update come first
        changed == dk # NoDeviceKeys
                   /\ set_e2e_device_keys_changed(user_id, device_id, dk)
        one_time_keys == keys.one_time_keys
        uploaded == IF DOMAIN one_time_keys # {}
                    THEN UploadOneTimeKeys(user_id, device_id, one_time_keys, key_list)
                    ELSE [raised |-> FALSE, pool |-> otk[user_id][device_id]]
    IN
    /\ key_list \in Orders(DOMAIN one_time_keys)
    /\ device_keys' = IF dk # NoDeviceKeys
                      THEN [device_keys EXCEPT ![user_id][device_id] = dk]
                      ELSE device_keys
    /\ otk' = [otk EXCEPT ![user_id][device_id] = uploaded.pool]
    /\ IF uploaded.raised
       THEN last' = [op |-> "upload_keys_for_user", user |-> user_id,
                     device |-> device_id, req |-> keys, status |-> 400,
                     res |-> NoResult, notified |-> changed,
                     checked |-> FALSE,
                     calls |-> UploadCalls(dk, changed, one_time_keys, TRUE)]
       ELSE last' = [op |-> "upload_keys_for_user", user |-> user_id,
                     device |-> device_id, req |-> keys, status |-> 200,
                     res |-> [one_time_key_counts |->
                                 count_e2e_one_time_keys(uploaded.pool)],
                     notified |-> changed, checked |-> TRUE,
                     calls |-> UploadCalls(dk, changed, one_time_keys, FALSE)]
    /\ UNCHANGED <<ssk, usk>>

(***************************************************************************)
(* User ids and the federation client.                                     *)
(***************************************************************************)
server_name == "test"

\* synapse.types.get_domain_from_id: the part after the first ':'
get_domain_from_id(user_id) ==
    CASE user_id = "@boris:test" -> "test"
      [] user_id = "@rita:remote" -> "remote"
      [] user_id = "@mallory:remote" -> "remote"
      [] user_id = "@zoe:elsewhere" -> "elsewhere"
      [] OTHER -> "elsewhere"

\* hs.is_mine(UserID.from_string(user_id))
is_mine(user_id) == get_domain_from_id(user_id) = server_name

\* user ids that UserID.from_string rejects (no leading '@', or no ':')
MalformedUserIds == {"boris"}

\* UserID.from_string(user_id) raises SynapseError(400, ...)
from_string_raises(user_id) == user_id \in MalformedUserIds

\* the orders in which the per-destination calls of one fan-out can complete
CompletionOrders(destinations) == Orders(destinations)

\* exceptions the federation client raises
FederationExceptions ==
    { [kind |-> "CodeMessageException", code |-> 502, msg |-> "Bad Gateway"],
      [kind |-> "NotRetryingDestination", code |-> 0, msg |-> "Not retrying server remote."],
      [kind |-> "FederationDeniedError", code |-> 403, msg |-> "Federation denied with remote."],
      [kind |-> "Exception", code |-> 0, msg |-> "Connection refused"] }

\* a variant without the cases of the two federation-specific exceptions
_exception_to_failure_Generic(e) ==
    IF e.kind = "CodeMessageException"
    THEN [status |-> e.code, message |-> e.msg]
    ELSE [status |-> 503, message |-> e.msg]

(***************************************************************************)
(* _exception_to_failure(e)                                                *)
(***************************************************************************)
_exception_to_failure(e) ==
    IF e.kind = "CodeMessageException"
    THEN [status |-> e.code, message |-> e.msg]
    ELSE IF e.kind = "NotRetryingDestination"
    THEN [status |-> 503, message |-> "Not ready for retry"]
    ELSE IF e.kind = "FederationDeniedError"
    THEN [status |-> 403, message |-> "Federation Denied"]
    ELSE [status |-> 503, message |-> e.msg]

\* the one-time keys a remote server may answer with: user -> device -> {key_id: key}
RemoteKeys == [rdev |-> [k \in {<<"alg1", "k9">>} |-> Str("rkey")]]
ClaimResponses ==
    { << >>,
      [u \in {"@rita:remote"} |-> RemoteKeys],
      [u \in {"@mallory:remote"} |-> RemoteKeys] }

\* what federation.claim_client_keys(destination, ...) does: answer or raise
ClaimOutcomes(responses, exceptions) ==
    {[ok |-> TRUE, one_time_keys |-> r] : r \in responses}
    \cup {[ok |-> FALSE, exc |-> e] : e \in exceptions}

(***************************************************************************)
(* E2eKeysHandler.claim_one_time_keys(query, timeout)                      *)
(* query: user -> device -> algorithm; fed: destination -> outcome of the  *)
(* federation call; c: the keys the store picks                            *)
(***************************************************************************)
\* local_query: (user_id, device_id, algorithm) of the local users
LocalClaimQuery(query) ==
    UNION { {<<u, d, query[u][d]>> : d \in DOMAIN query[u]} :
            u \in {x \in DOMAIN query : is_mine(x)} }

\* remote_queries: domain -> user -> device -> algorithm
RemoteClaimQueries(query) ==
    LET remote == {u \in DOMAIN query : ~is_mine(u)} IN
    [dest \in {get_domain_from_id(u) : u \in remote} |->
        [u \in {x \in remote : get_domain_from_id(x) = dest} |-> query[u]]]

\* json_result after the store's results are read: user -> device -> {key_id: key}
LocalClaimResult(c) ==
    [u \in {q[1] : q \in DOMAIN c} |->
        [d \in {q[2] : q \in {x \in DOMAIN c : x[1] = u}} |->
            LET q == CHOOSE x \in DOMAIN c : x[1] = u /\ x[2] = d IN
            [k \in {c[q]} |-> json_loads(otk[u][d][k])]]]

\* a variant that merges every user of the answer
claim_client_keys_Unfiltered(state, destination, destination_keys, outcome) ==
    IF outcome.ok
    THEN [json_result |->
              LET answered == DOMAIN outcome.one_time_keys IN
              [u \in (DOMAIN state.json_result) \cup answered |->
                  IF u \in answered
                  THEN outcome.one_time_keys[u] ELSE state.json_result[u]],
          failures |-> state.failures]
    ELSE [json_result |-> state.json_result,
          failures |-> (destination :> _exception_to_failure(outcome.exc))
                       @@ state.failures]

\* a variant in which a raise of one destination discards what was merged
claim_client_keys_FailureClears(state, destination, destination_keys, outcome) ==
    IF outcome.ok
    THEN [json_result |->
              LET answered == (DOMAIN outcome.one_time_keys) \cap (DOMAIN destination_keys) IN
              [u \in (DOMAIN state.json_result) \cup answered |->
                  IF u \in answered
                  THEN outcome.one_time_keys[u] ELSE state.json_result[u]],
          failures |-> state.failures]
    ELSE [json_result |-> << >>,
          failures |-> (destination :> _exception_to_failure(outcome.exc))
                       @@ state.failures]

\* claim_client_keys(destination), from the answer of the federation call to
\* its end: state is [json_result, failures] before, the value is the same
\* after; destination_keys is remote_queries[destination]
claim_client_keys(state, destination, destination_keys, outcome) ==
    IF outcome.ok
    THEN [json_result |->
              LET answered == (DOMAIN outcome.one_time_keys) \cap (DOMAIN destination_keys) IN
              [u \in (DOMAIN state.json_result) \cup answered |->
                  IF u \in answered
                  THEN outcome.one_time_keys[u] ELSE state.json_result[u]],
          failures |-> state.failures]
    ELSE [json_result |-> state.json_result,
          failures |-> (destination :> _exception_to_failure(outcome.exc))
                       @@ state.failures]

\* gatherResults: the calls complete one after the other in the order given
RECURSIVE ClaimsGathered(_, _, _, _)
ClaimsGathered(state, remote_queries, fed, order) ==
    IF order = << >> THEN state
    ELSE ClaimsGathered(claim_client_keys(state, Head(order),
                                          remote_queries[Head(order)],
                                          fed[Head(order)]),
                        remote_queries, fed, Tail(order))

\* the value returned: one_time_keys and failures
ClaimResult(query, fed, c, order) ==
    LET gathered == ClaimsGathered([json_result |-> LocalClaimResult(c),
                                    failures |-> << >>],
                                   RemoteClaimQueries(query), fed, order)
    IN  [one_time_keys |-> gathered.json_result, failures |-> gathered.failures]

\* the destinations a claim sends a federation request to
ClaimDestinations(query) ==
    IF \E u \in DOMAIN query : from_string_raises(u) THEN {}
    ELSE DOMAIN RemoteClaimQueries(query)

\* the entries the store is asked to claim
ClaimedFromStore(query) ==
    IF \E u \in DOMAIN query : from_string_raises(u) THEN {}
    ELSE LocalClaimQuery(query)

\* history: the previous call was a claim with this same query that returned a key
IsRetryOfClaim(query) ==
    /\ last.op = "claim_one_time_keys"
    /\ last.req = query
    /\ last.status = 200
    /\ DOMAIN last.res.one_time_keys # {}

\* a variant that reads the picked keys and leaves them in the store
claim_one_time_keys_NoConsume(query, fed, c, order) ==
    /\ c \in ClaimChoices(ClaimedFromStore(query))
    /\ DOMAIN fed = ClaimDestinations(query)
    /\ order \in CompletionOrders(DOMAIN fed)
    /\ otk' = otk
    /\ last' = [op |-> "claim_one_time_keys", req |-> query, status |-> 200,
                retry |-> IsRetryOfClaim(query), fed |-> fed, picked |-> c,
                store_calls |-> {"claim_e2e_one_time_keys"},
                res |-> ClaimResult(query, fed, c, order)]
    /\ UNCHANGED <<device_keys, ssk, usk>>

\* a variant that claims from the store before it looks at the user ids
claim_one_time_keys_ClaimFirst(query, fed, c, order) ==
    LET local_query ==
            UNION { {<<u, d, query[u][d]>> : d \in DOMAIN query[u]} :
                    u \in {x \in DOMAIN query : x \in DOMAIN otk} }
        picked == CHOOSE x \in ClaimChoices(local_query) : TRUE
    IN
    /\ c \in ClaimChoices(ClaimedFromStore(query))
    /\ DOMAIN fed = ClaimDestinations(query)
    /\ order \in CompletionOrders(DOMAIN fed)
    /\ IF \E u \in DOMAIN query : from_string_raises(u)
       THEN /\ otk' = PoolsAfterClaim(picked)
            /\ last' = [op |-> "claim_one_time_keys", req |-> query,
                        status |-> 400, retry |-> FALSE, fed |-> fed,
                        picked |-> picked,
                        store_calls |-> {"claim_e2e_one_time_keys"},
                        res |-> NoResult]
       ELSE /\ otk' = PoolsAfterClaim(c)
            /\ last' = [op |-> "claim_one_time_keys", req |-> query,
                        status |-> 200, retry |-> IsRetryOfClaim(query),
                        fed |-> fed, picked |-> c,
                        store_calls |-> {"claim_e2e_one_time_keys"},
                        res |-> ClaimResult(query, fed, c, order)]
    /\ UNCHANGED <<device_keys, ssk, usk>>

\* fed: the outcome of the federation call per destination; c: the keys the
\* store picks; order: the order in which the federation calls complete
claim_one_time_keys(query, fed, c, order) ==
    /\ c \in ClaimChoices(ClaimedFromStore(query))
    /\ DOMAIN fed = ClaimDestinations(query)
    /\ order \in CompletionOrders(DOMAIN fed)
    /\ IF \E u \in DOMAIN query : from_string_raises(u)
       THEN \* UserID.from_string raises in the first loop: nothing was done yet
            /\ otk' = otk
            /\ last' = [op |-> "claim_one_time_keys", req |-> query,
                        status |-> 400, retry |-> FALSE, fed |-> fed,
                        picked |-> c, store_calls |-> {},
                        res |-> NoResult]
       ELSE /\ otk' = PoolsAfterClaim(c)
            /\ last' = [op |-> "claim_one_time_keys", req |-> query,
                        status |-> 200, retry |-> IsRetryOfClaim(query),
                        fed |-> fed, picked |-> c,
                        store_calls |-> {"claim_e2e_one_time_keys"},
                        res |-> ClaimResult(query, fed, c, order)]
    /\ UNCHANGED <<device_keys, ssk, usk>>

(***************************************************************************)
(* Cross-signing keys.  A key info is a dict: user_id, usage (a list),     *)
(* keys (key id -> key data), and optionally replaces and signatures       *)
(* (user -> key id -> signature).  A key id "ed25519:A" is <<"ed25519",    *)
(* "A">>.  A signature records the key that made it and what it signed.    *)
(***************************************************************************)
None == [none |-> TRUE]

Sign(key_data, payload) == [signed_by |-> key_data, payload |-> payload]
BadSignature == [signed_by |-> "this+is+a+bad+signature"]

KeyId(name) == <<"ed25519", name>>

\* old_key_id.split(':', 1)[1]
BareId(key_id) == key_id[2]

\* signedjson.sign.verify_signed_json(json_object, signature_name, verify_key):
\* TRUE when it returns, FALSE when it raises SignatureVerifyException
verify_signed_json(json_object, signature_name, verify_key) ==
    /\ "signatures" \in DOMAIN json_object
    /\ signature_name \in DOMAIN json_object.signatures
    /\ verify_key.key_id \in DOMAIN json_object.signatures[signature_name]
    /\ LET signature == json_object.signatures[signature_name][verify_key.key_id]
       IN  /\ signature.signed_by = verify_key.key_data
           /\ signature.payload = Pop(Pop(json_object, "signatures"), "unsigned")

(***************************************************************************)
(* _get_verify_key_from_key_info(key_info): what it raises, and its result *)
(***************************************************************************)
_get_verify_key_error_AnyKeys(key_info) ==
    IF key_info = None THEN "TypeError"
    ELSE IF "keys" \notin DOMAIN key_info THEN "Invalid key"
    ELSE IF DOMAIN key_info.keys = {} THEN "Invalid key"
    ELSE "ok"

_get_verify_key_error(key_info) ==
    IF key_info = None THEN "TypeError"
    ELSE IF "keys" \notin DOMAIN key_info THEN "Invalid key"
    ELSE IF Cardinality(DOMAIN key_info.keys) # 1 THEN "Invalid key"
    ELSE "ok"

_get_verify_key_from_key_info(key_info) ==
    LET key_id == CHOOSE k \in DOMAIN key_info.keys : TRUE IN
    [key_id |-> key_id, key_data |-> key_info.keys[key_id]]

(***************************************************************************)
(* E2eKeysHandler.upload_signing_keys_for_user(user_id, keys)              *)
(***************************************************************************)
Raise(status, msg) == [status |-> status, msg |-> msg]
Returned == [status |-> 200, msg |-> "ok"]

\* a variant that checks that the old key's signature is there and never
\* verifies it
CheckSelfSigningKey_NoVerify(user_id, self_signing_key, old_self_signing_key) ==
    LET old == _get_verify_key_from_key_info(old_self_signing_key) IN
    IF \/ self_signing_key.user_id # user_id
       \/ "self_signing" \notin self_signing_key.usage
    THEN Raise(400, "Invalid self-signing key")
    ELSE IF /\ old_self_signing_key # None
            /\ "replaces" \notin DOMAIN self_signing_key
    THEN Raise(400, "A self-signing key already exists")
    ELSE IF /\ old_self_signing_key # None
            /\ self_signing_key.replaces # BareId(old.key_id)
    THEN Raise(400, "Incorrect replaces property")
    ELSE IF "signatures" \notin DOMAIN self_signing_key
    THEN Returned
    ELSE IF old_self_signing_key = None
    THEN Raise(400, "Invalid signature")
    ELSE IF \/ user_id \notin DOMAIN self_signing_key.signatures
            \/ old.key_id \notin DOMAIN self_signing_key.signatures[user_id]
    THEN Raise(400, "Invalid signature on self-signing key")
    ELSE Returned

\* a variant that verifies the old key's signature only when it is there
CheckSelfSigningKey_VerifyIfPresent(user_id, self_signing_key, old_self_signing_key) ==
    LET old == _get_verify_key_from_key_info(old_self_signing_key) IN
    IF \/ self_signing_key.user_id # user_id
       \/ "self_signing" \notin self_signing_key.usage
    THEN Raise(400, "Invalid self-signing key")
    ELSE IF /\ old_self_signing_key # None
            /\ "replaces" \notin DOMAIN self_signing_key
    THEN Raise(400, "A self-signing key already exists")
    ELSE IF /\ old_self_signing_key # None
            /\ self_signing_key.replaces # BareId(old.key_id)
    THEN Raise(400, "Incorrect replaces property")
    ELSE IF "signatures" \notin DOMAIN self_signing_key
    THEN Returned
    ELSE IF old_self_signing_key = None
    THEN Raise(400, "Invalid signature")
    ELSE IF \/ user_id \notin DOMAIN self_signing_key.signatures
            \/ old.key_id \notin DOMAIN self_signing_key.signatures[user_id]
    THEN Returned
    ELSE IF ~verify_signed_json(self_signing_key, user_id, old)
    THEN Raise(400, "Invalid signature on self-signing key")
    ELSE Returned

\* a variant that checks a first key's signatures like a replacement's and
\* so lets a first key through whatever it carries
CheckSelfSigningKey_FirstUnchecked(user_id, self_signing_key, old_self_signing_key) ==
    LET old == _get_verify_key_from_key_info(old_self_signing_key) IN
    IF \/ self_signing_key.user_id # user_id
       \/ "self_signing" \notin self_signing_key.usage
    THEN Raise(400, "Invalid self-signing key")
    ELSE IF old_self_signing_key = None
    THEN Returned
    ELSE IF "replaces" \notin DOMAIN self_signing_key
    THEN Raise(400, "A self-signing key already exists")
    ELSE IF self_signing_key.replaces # BareId(old.key_id)
    THEN Raise(400, "Incorrect replaces property")
    ELSE IF "signatures" \notin DOMAIN self_signing_key
    THEN Returned
    ELSE IF \/ user_id \notin DOMAIN self_signing_key.signatures
            \/ old.key_id \notin DOMAIN self_signing_key.signatures[user_id]
    THEN Raise(400, "Invalid signature on self-signing key")
    ELSE IF ~verify_signed_json(self_signing_key, user_id, old)
    THEN Raise(400, "Invalid signature on self-signing key")
    ELSE Returned

\* the checks on keys["self_signing_key"]: what they raise, if anything
CheckSelfSigningKey(user_id, self_signing_key, old_self_signing_key) ==
    LET old_error == _get_verify_key_error(old_self_signing_key)
        old == _get_verify_key_from_key_info(old_self_signing_key)
    IN
    IF \/ self_signing_key.user_id # user_id
       \/ "self_signing" \notin self_signing_key.usage
    THEN Raise(400, "Invalid self-signing key")
    ELSE IF /\ old_self_signing_key # None
            /\ "replaces" \notin DOMAIN self_signing_key
    THEN Raise(400, "A self-signing key already exists")
    ELSE IF old_self_signing_key # None /\ old_error # "ok"
    THEN Raise(400, old_error)
    ELSE IF /\ old_self_signing_key # None
            /\ self_signing_key.replaces # BareId(old.key_id)
    THEN Raise(400, "Incorrect replaces property")
    ELSE IF "signatures" \notin DOMAIN self_signing_key
    THEN Returned
    ELSE IF old_self_signing_key = None
    THEN Raise(400, "Invalid signature")
    ELSE IF \/ user_id \notin DOMAIN self_signing_key.signatures
            \/ old.key_id \notin DOMAIN self_signing_key.signatures[user_id]
    THEN Raise(400, "Invalid signature on self-signing key")
    ELSE IF ~verify_signed_json(self_signing_key, user_id, old)
    THEN Raise(400, "Invalid signature on self-signing key")
    ELSE Returned

\* the checks on keys["user_signing_key"] against the self-signing key in force
CheckUserSigningKey(user_id, user_signing_key, self_signing_key) ==
    LET current == _get_verify_key_from_key_info(self_signing_key) IN
    IF \/ user_signing_key.user_id # user_id
       \/ "user_signing" \notin user_signing_key.usage
    THEN Raise(400, "Invalid user-signing key")
    ELSE IF \/ "signatures" \notin DOMAIN user_signing_key
            \/ user_id \notin DOMAIN user_signing_key.signatures
            \/ current.key_id \notin DOMAIN user_signing_key.signatures[user_id]
    THEN Raise(400, "Invalid signature on user-signing key")
    ELSE IF ~verify_signed_json(user_signing_key, user_id, current)
    THEN Raise(400, "Invalid signature on user-signing key")
    ELSE Returned

\* how the whole call ends: Returned, or the first exception raised
SigningOutcome_AgainstStored(user_id, keys) ==
    LET old_self_signing_key == ssk[user_id]
        first == IF "self_signing_key" \in DOMAIN keys
                 THEN CheckSelfSigningKey(user_id, keys.self_signing_key,
                                          old_self_signing_key)
                 ELSE Returned
        self_signing_key == IF "self_signing_key" \in DOMAIN keys
                               /\ old_self_signing_key = None
                            THEN keys.self_signing_key
                            ELSE old_self_signing_key
        key_error == _get_verify_key_error(self_signing_key)
    IN
    IF first.status # 200 THEN first
    ELSE IF key_error = "TypeError"
    THEN Raise(500, "TypeError: argument of type 'NoneType' is not iterable")
    ELSE IF key_error # "ok" THEN Raise(400, key_error)
    ELSE IF "user_signing_key" \in DOMAIN keys
    THEN CheckUserSigningKey(user_id, keys.user_signing_key, self_signing_key)
    ELSE Returned

SigningOutcome(user_id, keys) ==
    LET old_self_signing_key == ssk[user_id]
        first == IF "self_signing_key" \in DOMAIN keys
                 THEN CheckSelfSigningKey(user_id, keys.self_signing_key,
                                          old_self_signing_key)
                 ELSE Returned
        self_signing_key == IF "self_signing_key" \in DOMAIN keys
                            THEN keys.self_signing_key
                            ELSE old_self_signing_key
        key_error == _get_verify_key_error(self_signing_key)
    IN
    IF first.status # 200 THEN first
    ELSE IF key_error = "TypeError"
    THEN Raise(500, "TypeError: argument of type 'NoneType' is not iterable")
    ELSE IF key_error # "ok" THEN Raise(400, key_error)
    ELSE IF "user_signing_key" \in DOMAIN keys
    THEN CheckUserSigningKey(user_id, keys.user_signing_key, self_signing_key)
    ELSE Returned

upload_signing_keys_for_user_StoreEarly(user_id, keys) ==
    LET outcome == SigningOutcome(user_id, keys)
        first == IF "self_signing_key" \in DOMAIN keys
                 THEN CheckSelfSigningKey(user_id, keys.self_signing_key,
                                          ssk[user_id])
                 ELSE Returned
    IN
    /\ ssk' = IF /\ first.status = 200
                 /\ "self_signing_key" \in DOMAIN keys
                 /\ _get_verify_key_error(keys.self_signing_key) = "ok"
              THEN [ssk EXCEPT ![user_id] = keys.self_signing_key]
              ELSE ssk
    /\ usk' = IF outcome.status = 200 /\ "user_signing_key" \in DOMAIN keys
              THEN [usk EXCEPT ![user_id] = keys.user_signing_key]
              ELSE usk
    /\ last' = [op |-> "upload_signing_keys_for_user", user |-> user_id,
                req |-> keys, status |-> outcome.status, msg |-> outcome.msg,
                had_old_key |-> ssk[user_id] # None,
                res |-> IF outcome.status = 200 THEN << >> ELSE NoResult]
    /\ UNCHANGED <<otk, device_keys>>

upload_signing_keys_for_user(user_id, keys) ==
    LET outcome == SigningOutcome(user_id, keys) IN
    /\ ssk' = IF outcome.status = 200 /\ "self_signing_key" \in DOMAIN keys
              THEN [ssk EXCEPT ![user_id] = keys.self_signing_key]
              ELSE ssk
    /\ usk' = IF outcome.status = 200 /\ "user_signing_key" \in DOMAIN keys
              THEN [usk EXCEPT ![user_id] = keys.user_signing_key]
              ELSE usk
    /\ last' = [op |-> "upload_signing_keys_for_user", user |-> user_id,
                req |-> keys, status |-> outcome.status, msg |-> outcome.msg,
                had_old_key |-> ssk[user_id] # None,
                res |-> IF outcome.status = 200 THEN << >> ELSE NoResult]
    /\ UNCHANGED <<otk, device_keys>>

(***************************************************************************)
(* E2eKeysHandler.upload_signatures_for_device_keys(user_id, signatures)   *)
(* signatures: target user -> target device -> signed device key object.   *)
(* The two signing keys are read from the store without `yield`: the value *)
(* is what the store method returns, a Deferred (returns_deferred) or the  *)
(* key itself.  Line 464 rebinds `signatures` to an empty list, so the     *)
(* loop header of line 465 calls .items() on a list and raises; the loop   *)
(* body and store_e2e_device_signatures (line 487) are never reached.      *)
(***************************************************************************)
SignaturesOutcome(user_id, signatures, returns_deferred) ==
    IF returns_deferred
    THEN Raise(500, "TypeError: argument of type 'Deferred' is not iterable")
    ELSE IF _get_verify_key_error(ssk[user_id]) = "TypeError"
            \/ (_get_verify_key_error(ssk[user_id]) = "ok"
                /\ _get_verify_key_error(usk[user_id]) = "TypeError")
    THEN Raise(500, "TypeError: argument of type 'NoneType' is not iterable")
    ELSE IF _get_verify_key_error(ssk[user_id]) # "ok"
            \/ _get_verify_key_error(usk[user_id]) # "ok"
    THEN Raise(400, "Invalid key")
    ELSE Raise(500, "AttributeError: 'list' object has no attribute 'items'")

upload_signatures_for_device_keys(user_id, signatures, returns_deferred) ==
    LET outcome == SignaturesOutcome(user_id, signatures, returns_deferred) IN
    /\ last' = [op |-> "upload_signatures_for_device_keys", user |-> user_id,
                req |-> signatures, status |-> outcome.status,
                msg |-> outcome.msg,
                \* the argument of store_e2e_device_signatures, if it was called
                stored |-> NoResult, res |-> NoResult]
    /\ UNCHANGED <<otk, device_keys, ssk, usk>>

(***************************************************************************)
(* E2eKeysHandler.query_local_devices(query): user -> list of device ids   *)
(***************************************************************************)
\* store.get_e2e_device_keys(query_list): the devices that have keys stored
get_e2e_device_keys(query) ==
    [u \in {x \in DOMAIN query : x \in DOMAIN device_keys} |->
        [d \in {x \in DOMAIN device_keys[u] :
                    /\ device_keys[u][x] # NoDeviceKeys
                    /\ (query[u] = {} \/ x \in query[u])} |->
            [keys |-> device_keys[u][d], device_display_name |-> None]]]

\* the SynapseError(400, "Not a user here") of query_local_devices
NotAUserHere(query) == \E u \in DOMAIN query : ~is_mine(u)

\* result_dict: every queried user, with the stored devices' keys
query_local_devices(query) ==
    LET results == get_e2e_device_keys(query) IN
    [u \in DOMAIN query |->
        IF u \in DOMAIN results
        THEN [d \in DOMAIN results[u] |->
                [keys |-> results[u][d].keys, unsigned |-> << >>]]
        ELSE << >>]

\* the message of the SynapseError(400) that UserID.from_string raises
from_string_error == "Expected UserID string to start with '@'"

\* the ids at which the first loop of query_local_devices raises
RejectedUserIds(query) ==
    {u \in DOMAIN query : from_string_raises(u) \/ ~is_mine(u)}

\* a variant that leaves the queried users out of the result until the store
\* has devices for them
QueryLocalDevicesOutcome_StoredOnly(query, examined_first) ==
    IF RejectedUserIds(query) = {}
    THEN [status |-> 200, msg |-> "",
          res |-> LET results == get_e2e_device_keys(query) IN
                  [u \in {x \in DOMAIN results : DOMAIN results[x] # {}} |->
                      query_local_devices(query)[u]]]
    ELSE [status |-> 400,
          msg |-> IF from_string_raises(examined_first)
                  THEN from_string_error ELSE "Not a user here",
          res |-> NoResult]

\* a variant that skips the users that are not local and answers for the rest
QueryLocalDevicesOutcome_SkipRemote(query, examined_first) ==
    IF \E u \in DOMAIN query : from_string_raises(u)
    THEN [status |-> 400, msg |-> from_string_error, res |-> NoResult]
    ELSE [status |-> 200, msg |-> "",
          res |-> query_local_devices(
                      [u \in {x \in DOMAIN query : is_mine(x)} |-> query[u]])]

\* the outcome of a call of query_local_devices: it raises at the first id of
\* the dict's iteration that is rejected (examined_first), or returns
QueryLocalDevicesOutcome(query, examined_first) ==
    IF RejectedUserIds(query) = {}
    THEN [status |-> 200, msg |-> "", res |-> query_local_devices(query)]
    ELSE [status |-> 400,
          msg |-> IF from_string_raises(examined_first)
                  THEN from_string_error ELSE "Not a user here",
          res |-> NoResult]

\* the ids the iteration can meet first among the rejected ones
ExaminedFirst(query) ==
    IF RejectedUserIds(query) = {} THEN {None} ELSE RejectedUserIds(query)

\* query_local_devices called on its own
query_local_devices_call(query, examined_first) ==
    LET outcome == QueryLocalDevicesOutcome(query, examined_first) IN
    /\ examined_first \in ExaminedFirst(query)
    /\ last' = [op |-> "query_local_devices", req |-> query,
                status |-> outcome.status, msg |-> outcome.msg,
                res |-> outcome.res]
    /\ UNCHANGED <<otk, device_keys, ssk, usk>>

(***************************************************************************)
(* E2eKeysHandler.on_federation_query_client_keys(query_body)              *)
(***************************************************************************)
on_federation_query_client_keys(query_body, examined_first) ==
    LET device_keys_query == IF "device_keys" \in DOMAIN query_body
                             THEN query_body.device_keys ELSE << >>
        outcome == QueryLocalDevicesOutcome(device_keys_query, examined_first)
    IN
    /\ examined_first \in ExaminedFirst(device_keys_query)
    /\ last' = [op |-> "on_federation_query_client_keys",
                req |-> device_keys_query,
                status |-> outcome.status, msg |-> outcome.msg,
                res |-> IF outcome.status = 200
                        THEN [device_keys |-> outcome.res] ELSE NoResult]
    /\ UNCHANGED <<otk, device_keys, ssk, usk>>

(***************************************************************************)
(* E2eKeysHandler.query_devices(query_body, timeout)                       *)
(* query: user -> set of device ids; cache: what the device-list cache     *)
(* holds of the remote users; fed: destination -> outcome of the call      *)
(***************************************************************************)
\* remote_queries_not_in_cache: domain -> user -> device ids
RemoteDeviceQueries_IgnoreCache(query, cache) ==
    LET misses == {u \in DOMAIN query : ~is_mine(u)} IN
    [dest \in {get_domain_from_id(u) : u \in misses} |->
        [u \in {x \in misses : get_domain_from_id(x) = dest} |-> query[u]]]

RemoteDeviceQueries(query, cache) ==
    LET misses == {u \in DOMAIN query : ~is_mine(u) /\ u \notin DOMAIN cache} IN
    [dest \in {get_domain_from_id(u) : u \in misses} |->
        [u \in {x \in misses : get_domain_from_id(x) = dest} |-> query[u]]]

\* results after the local lookup and the cache lookup
LocalAndCachedDevices(query, cache) ==
    LET local_query == [u \in {x \in DOMAIN query : is_mine(x)} |-> query[u]]
        local_result == query_local_devices(local_query)
        hits == {u \in DOMAIN query : ~is_mine(u) /\ u \in DOMAIN cache}
    IN  [u \in (DOMAIN local_query) \cup hits |->
            IF u \in DOMAIN local_query THEN local_result[u]
            ELSE [d \in {x \in DOMAIN cache[u] : "keys" \in DOMAIN cache[u][x]} |->
                    [keys |-> cache[u][d].keys,
                     unsigned |-> IF "device_display_name" \in DOMAIN cache[u][d]
                                  THEN [device_display_name |->
                                            cache[u][d].device_display_name]
                                  ELSE << >>]]]

\* a variant that writes every user of a response, requested there or not
do_remote_query_Unfiltered(state, destination, destination_query, outcome) ==
    IF outcome.ok
    THEN [results |->
              [u \in (DOMAIN state.results) \cup (DOMAIN outcome.device_keys) |->
                  IF u \in DOMAIN outcome.device_keys
                  THEN outcome.device_keys[u] ELSE state.results[u]],
          failures |-> state.failures]
    ELSE [results |-> state.results,
          failures |-> (destination :> _exception_to_failure(outcome.exc))
                       @@ state.failures]

\* do_remote_query(destination), from the answer of the federation call to its
\* end: state is [results, failures] before, the value is the same after
do_remote_query(state, destination, destination_query, outcome) ==
    IF outcome.ok
    THEN [results |->
              LET answered == (DOMAIN outcome.device_keys) \cap (DOMAIN destination_query) IN
              [u \in (DOMAIN state.results) \cup answered |->
                  IF u \in answered
                  THEN outcome.device_keys[u] ELSE state.results[u]],
          failures |-> state.failures]
    ELSE [results |-> state.results,
          failures |-> (destination :> _exception_to_failure(outcome.exc))
                       @@ state.failures]

\* gatherResults: the calls complete one after the other in the order given
RECURSIVE RemoteQueriesGathered(_, _, _, _)
RemoteQueriesGathered(state, remote_queries, fed, order) ==
    IF order = << >> THEN state
    ELSE RemoteQueriesGathered(do_remote_query(state, Head(order),
                                               remote_queries[Head(order)],
                                               fed[Head(order)]),
                               remote_queries, fed, Tail(order))

\* a variant whose self-signing key lookup finds nothing
SelfSigningKeysOf_Missing(query) ==
    [u \in {x \in DOMAIN query : is_mine(x)} |-> None]

\* self_signing_keys: store.get_e2e_self_signing_key for every local user
SelfSigningKeysOf(query) ==
    [u \in {x \in DOMAIN query : is_mine(x)} |->
        IF u \in DOMAIN ssk THEN ssk[u] ELSE None]

\* the value returned: device_keys, failures and self_signing_keys
QueryResult(query, cache, fed, order) ==
    LET gathered == RemoteQueriesGathered(
                        [results |-> LocalAndCachedDevices(query, cache),
                         failures |-> << >>],
                        RemoteDeviceQueries(query, cache), fed, order)
    IN  [device_keys |-> gathered.results, failures |-> gathered.failures,
         self_signing_keys |-> SelfSigningKeysOf(query)]

\* the destinations a query sends a federation request to
QueryDestinations(query, cache) ==
    IF \E u \in DOMAIN query : from_string_raises(u) THEN {}
    ELSE DOMAIN RemoteDeviceQueries(query, cache)

\* the federation requests a query issues: how many times each
\* <<destination, body>> is passed to federation.query_client_keys
QueriesSent(query, cache) ==
    LET remote_queries_not_in_cache == RemoteDeviceQueries(query, cache) IN
    [call \in {<<destination,
                 [device_keys |-> remote_queries_not_in_cache[destination]]>> :
                  destination \in DOMAIN remote_queries_not_in_cache} |-> 1]

\* the store methods a query calls
QueryStoreCalls(query) ==
    (IF \E u \in DOMAIN query : is_mine(u)
     THEN {"get_e2e_device_keys", "get_e2e_self_signing_key"} ELSE {})
    \cup (IF \E u \in DOMAIN query : ~is_mine(u)
          THEN {"get_user_devices_from_cache"} ELSE {})

\* cache: what the device-list cache holds of the remote users; fed: the
\* outcome of the federation call per destination; order: the order in which
\* the federation calls complete
query_devices(query, cache, fed, order) ==
    /\ DOMAIN fed = QueryDestinations(query, cache)
    /\ order \in CompletionOrders(DOMAIN fed)
    /\ IF \E u \in DOMAIN query : from_string_raises(u)
       THEN \* UserID.from_string raises in the first loop: nothing was done yet
            last' = [op |-> "query_devices", req |-> query, cache |-> cache,
                     status |-> 400, fed |-> fed, store_calls |-> {},
                     sent |-> << >>, res |-> NoResult]
       ELSE last' = [op |-> "query_devices", req |-> query, cache |-> cache,
                     status |-> 200, fed |-> fed,
                     store_calls |-> QueryStoreCalls(query),
                     sent |-> QueriesSent(query, cache),
                     res |-> QueryResult(query, cache, fed, order)]
    /\ UNCHANGED <<otk, device_keys, ssk, usk>>

(***************************************************************************)
(* The one-time key protocol: uploads and claims in any order.             *)
(***************************************************************************)
\* uploads of at most n one-time keys: "alg1:k1" with every kind of value,
\* the other key ids with the value of the tests
UploadRequests(dks, n) ==
    [device_keys : dks,
     one_time_keys :
        {f \in PartialFns(OneTimeKeyIds, OneTimeKeyValues, n) :
            \A k \in DOMAIN f : k # <<"alg1", "k1">> => f[k] = Str("key1")}]

LocalOnly(query) == \A u \in DOMAIN query : is_mine(u)

ClaimQueries ==
    { q \in PartialFns(LocalUsers \cup RemoteUsers,
                       PartialFns(Devices \cup RemoteDevices, Algorithms, 1), 2) :
        \A u \in DOMAIN q :
            DOMAIN q[u] \subseteq (IF is_mine(u) THEN Devices ELSE RemoteDevices) }

\* the callers whose calls run concurrently; a caller with no call in progress
Callers == {"c1", "c2"}
Idle == [pc |-> "idle"]

Init ==
    /\ otk = [u \in LocalUsers |-> [d \in Devices |-> << >>]]
    /\ device_keys = [u \in LocalUsers |-> [d \in Devices |-> NoDeviceKeys]]
    /\ ssk = [u \in LocalUsers |-> None]
    /\ usk = [u \in LocalUsers |-> None]
    /\ last = [op |-> "init", status |-> 200, res |-> NoResult]
    /\ claimed = {}
    /\ inflight = [caller \in Callers |-> Idle]

\* the federation outcomes tried in this protocol: an answer or a raise
OneTimeKeyClaimOutcomes ==
    ClaimOutcomes({r \in ClaimResponses : r # << >>},
                  {e \in FederationExceptions : e.kind = "NotRetryingDestination"})

UploadSome(requests) ==
    \E u \in LocalUsers, d \in Devices :
        \E keys \in requests :
            \E key_list \in Orders(DOMAIN keys.one_time_keys) :
                upload_keys_for_user(u, d, keys, key_list)

ClaimSome(queries) ==
    \E query \in queries :
        \E fed \in [ClaimDestinations(query) -> OneTimeKeyClaimOutcomes] :
            \E c \in ClaimChoices(ClaimedFromStore(query)) :
                \E order \in CompletionOrders(DOMAIN fed) :
                    claim_one_time_keys(query, fed, c, order)

UploadKeys ==
    /\ UploadSome(UploadRequests({NoDeviceKeys}, MaxUploadKeys))
    /\ UNCHANGED <<claimed, inflight>>

ClaimKeys ==
    /\ ClaimSome(ClaimQueries)
    /\ UNCHANGED <<claimed, inflight>>

NextOneTimeKeys == UploadKeys \/ ClaimKeys

SpecOneTimeKeys == Init /\ [][NextOneTimeKeys]_vars

(***************************************************************************)
(* The same protocol with the history of claimed keys recorded.            *)
(***************************************************************************)
\* the local one-time keys a claim handed out: <<user, device, key id, key>>
ReturnedKeys(call) ==
    IF call.op # "claim_one_time_keys" THEN {}
    ELSE LET r == call.res.one_time_keys IN
         UNION { UNION { {<<u, d, k, r[u][d][k]>> : k \in DOMAIN r[u][d]} :
                         d \in DOMAIN r[u] } :
                 u \in {x \in DOMAIN r : is_mine(x)} }

\* the history of claimed keys, as far as it is recorded
RecordClaimed ==
    claimed' = IF Cardinality(claimed) < MaxClaimed
               THEN claimed \cup ReturnedKeys(last')
               ELSE claimed

UploadKeysRecorded ==
    /\ UploadSome(UploadRequests({NoDeviceKeys}, 1))
    /\ RecordClaimed
    /\ UNCHANGED inflight

ClaimKeysRecorded ==
    /\ ClaimSome({q \in ClaimQueries : LocalOnly(q)})
    /\ RecordClaimed
    /\ UNCHANGED inflight

NextConsumeOnce == UploadKeysRecorded \/ ClaimKeysRecorded

SpecConsumeOnce == Init /\ [][NextConsumeOnce]_vars

(***************************************************************************)
(* The cross-signing protocol: signing key uploads and local device        *)
(* queries in any order.                                                   *)
(***************************************************************************)
SelfSigningKeyNames == {"A", "B"}
UserSigningKeyNames == {"U"}

KeyInfo(user_id, usage, names) ==
    [user_id |-> user_id, usage |-> {usage},
     keys |-> [k \in {KeyId(n) : n \in names} |-> BareId(k)]]

\* the key info with a `signatures` block for it: none, or one entry; an
\* entry under key id n is made by the key n over this key info, or is bad
Signed(key_info, users, names) ==
    {key_info}
    \cup {key_info @@ [signatures |-> [u \in {who} |->
                          [k \in {KeyId(n)} |-> Sign(n, key_info)]]] :
            who \in users, n \in names}
    \cup {key_info @@ [signatures |-> [u \in {"@boris:test"} |->
                          [k \in {KeyId(n)} |-> BadSignature]]] : n \in names}

\* well-formed self-signing keys, with and without `replaces`
WellFormedSelfSigningKeys ==
    LET bare == {KeyInfo("@boris:test", "self_signing", {n}) : n \in SelfSigningKeyNames}
    IN  bare \cup {k @@ [replaces |-> r] : k \in bare, r \in SelfSigningKeyNames}

\* self-signing keys the user's own client would upload: unsigned, or signed
\* by the user with a key of the chain
PlainSelfSigningKeys ==
    UNION {Signed(k, {"@boris:test"}, SelfSigningKeyNames) : k \in WellFormedSelfSigningKeys}
    \ {k \in UNION {Signed(x, {"@boris:test"}, SelfSigningKeyNames) :
                        x \in WellFormedSelfSigningKeys} :
          /\ "signatures" \in DOMAIN k
          /\ \E n \in SelfSigningKeyNames :
                k.signatures["@boris:test"] = [i \in {KeyId(n)} |-> BadSignature]}

MalformedSelfSigningKeys ==
    { KeyInfo("@other:test", "self_signing", {"A"}),
      KeyInfo("@boris:test", "user_signing", {"A"}),
      KeyInfo("@boris:test", "self_signing", {"A", "B"}),
      [user_id |-> "@boris:test", usage |-> {"self_signing"}] }

SelfSigningKeys ==
    UNION {Signed(k, {"@boris:test", "@other:test"}, SelfSigningKeyNames) :
              k \in WellFormedSelfSigningKeys}
    \cup MalformedSelfSigningKeys

UserSigningKeys ==
    UNION {Signed(KeyInfo("@boris:test", "user_signing", {n}),
                  {"@boris:test", "@other:test"}, SelfSigningKeyNames) :
              n \in UserSigningKeyNames}
    \cup { KeyInfo("@other:test", "user_signing", {"U"}),
           KeyInfo("@boris:test", "self_signing", {"U"}) }

SigningRequests ==
    {[self_signing_key |-> k] : k \in SelfSigningKeys}
    \cup {[user_signing_key |-> k] : k \in UserSigningKeys}
    \cup {[self_signing_key |-> k, user_signing_key |-> v] :
            k \in PlainSelfSigningKeys, v \in UserSigningKeys}
    \cup {<< >>}

UploadSigningKeys ==
    /\ \E u \in LocalUsers, keys \in SigningRequests :
          upload_signing_keys_for_user(u, keys)
    /\ UNCHANGED <<claimed, inflight>>

QueryDevices ==
    /\ \E query \in [LocalUsers -> {{}}] :
          query_devices(query, << >>, << >>, << >>)
    /\ UNCHANGED <<claimed, inflight>>

NextSigningKeys == UploadSigningKeys \/ QueryDevices

SpecSigningKeys == Init /\ [][NextSigningKeys]_vars

(***************************************************************************)
(* The key directory: device queries and one-time key claims with local    *)
(* users, users of two remote servers and an id that is no user id; the    *)
(* remote servers answer, answer with entries they were not asked for, or  *)
(* the call to them raises.                                                *)
(***************************************************************************)
DirectoryUsers == LocalUsers \cup {"@rita:remote", "@zoe:elsewhere"} \cup MalformedUserIds

\* device queries: user -> device ids, the empty list for every device
DeviceQueries ==
    { q \in PartialFns(DirectoryUsers, {{}, {"xyz"}}, 4) :
        \A u \in DOMAIN q : q[u] # {} => u \in LocalUsers }

\* claim queries: user -> device -> algorithm
DirectoryClaimQueries ==
    UNION { [S -> {[d \in {"xyz"} |-> "alg1"]}] : S \in SUBSET DirectoryUsers }

\* what the device-list cache holds: nothing, or the devices of @rita:remote
DeviceCaches ==
    { << >>,
      [u \in {"@rita:remote"} |->
          [rdev |-> [keys |-> "cached", device_display_name |-> "phone"],
           nokeys |-> [device_display_name |-> "tablet"]]] }

\* the users a remote server is responsible for
UsersOf(destination) ==
    {u \in DirectoryUsers \ MalformedUserIds : get_domain_from_id(u) = destination}

\* a remote server's answer: its own users, or entries for every user
DeviceAnswers(destination) ==
    { [u \in UsersOf(destination) |->
          [d \in {"rdev"} |-> [keys |-> "remote", unsigned |-> << >>]]],
      [u \in DirectoryUsers \ MalformedUserIds |->
          [d \in {"forged"} |-> [keys |-> "forged", unsigned |-> << >>]]] }

ClaimAnswers(destination) ==
    { [u \in UsersOf(destination) |-> RemoteKeys],
      [u \in DirectoryUsers \ MalformedUserIds |->
          [forged |-> [k \in {<<"alg1", "k0">>} |-> Str("forged")]]] }

\* what federation.query_client_keys(destination, ...) does: answer or raise
QueryOutcomes(destination) ==
    {[ok |-> TRUE, device_keys |-> r] : r \in DeviceAnswers(destination)}
    \cup {[ok |-> FALSE, exc |-> e] : e \in FederationExceptions}

DirectoryClaimOutcomes(destination) ==
    ClaimOutcomes(ClaimAnswers(destination), FederationExceptions)

\* the per-destination outcomes of one fan-out of device queries
QueryFanOut(destinations) ==
    {fed \in [destinations -> UNION {QueryOutcomes(dest) : dest \in destinations}] :
        \A dest \in destinations : fed[dest] \in QueryOutcomes(dest)}

\* the per-destination outcomes of one fan-out of claims
ClaimFanOut(destinations) ==
    {fed \in [destinations -> UNION {DirectoryClaimOutcomes(dest) : dest \in destinations}] :
        \A dest \in destinations : fed[dest] \in DirectoryClaimOutcomes(dest)}

DirectoryUploads ==
    [device_keys : {NoDeviceKeys} \cup DeviceKeyObjects,
     one_time_keys : {<< >>, [k \in {<<"alg1", "k1">>} |-> Str("key1")]}]

UploadDeviceAndKeys ==
    /\ UploadSome(DirectoryUploads)
    /\ UNCHANGED <<claimed, inflight>>

QueryDirectory ==
    /\ \E query \in DeviceQueries, cache \in DeviceCaches :
          \E fed \in QueryFanOut(QueryDestinations(query, cache)) :
              \E order \in CompletionOrders(DOMAIN fed) :
                  query_devices(query, cache, fed, order)
    /\ UNCHANGED <<claimed, inflight>>

ClaimDirectory ==
    /\ \E query \in DirectoryClaimQueries :
          \E fed \in ClaimFanOut(ClaimDestinations(query)) :
              \E c \in ClaimChoices(ClaimedFromStore(query)) :
                  \E order \in CompletionOrders(DOMAIN fed) :
                      claim_one_time_keys(query, fed, c, order)
    /\ UNCHANGED <<claimed, inflight>>

QueryLocalDevices ==
    /\ \E query \in DeviceQueries :
          \E examined_first \in ExaminedFirst(query) :
              query_local_devices_call(query, examined_first)
    /\ UNCHANGED <<claimed, inflight>>

FederationQueryClientKeys ==
    /\ \E query_body \in {<< >>} \cup {[device_keys |-> q] : q \in DeviceQueries} :
          \E examined_first \in
                ExaminedFirst(IF "device_keys" \in DOMAIN query_body
                              THEN query_body.device_keys ELSE << >>) :
              on_federation_query_client_keys(query_body, examined_first)
    /\ UNCHANGED <<claimed, inflight>>

NextDirectory ==
    \/ UploadDeviceAndKeys
    \/ QueryDirectory
    \/ ClaimDirectory
    \/ QueryLocalDevices
    \/ FederationQueryClientKeys

SpecDirectory == Init /\ [][NextDirectory]_vars

(***************************************************************************)
(* Uploads of batches: several one-time keys in one request, with or       *)
(* without device keys.                                                    *)
(***************************************************************************)
(***************************************************************************)
(* The handlers step by step.  A call suspends at its external calls (the  *)
(* `yield`s); what runs between two suspensions is one step, and the steps *)
(* of different callers interleave.                                        *)
(***************************************************************************)
claim_begin_NoRemove(caller, query, c) ==
    /\ inflight[caller].pc = "idle"
    /\ ~\E u \in DOMAIN query : from_string_raises(u)
    /\ c \in ClaimChoices(ClaimedFromStore(query))
    /\ otk' = otk
    /\ inflight' = [inflight EXCEPT ![caller] =
                       [pc |-> "awaiting", op |-> "claim_one_time_keys",
                        req |-> query, picked |-> c,
                        dispatched |-> DOMAIN RemoteClaimQueries(query),
                        answered |-> << >>,
                        json_result |-> LocalClaimResult(c),
                        failures |-> << >>]]
    /\ UNCHANGED <<device_keys, ssk, usk, last, claimed>>

\* claim_one_time_keys up to the dispatch of the federation calls: the store
\* claims the local keys (c: the keys it picks), json_result is built from
\* them, and one claim_client_keys per destination is started
claim_begin(caller, query, c) ==
    /\ inflight[caller].pc = "idle"
    /\ ~\E u \in DOMAIN query : from_string_raises(u)
    /\ c \in ClaimChoices(ClaimedFromStore(query))
    /\ otk' = PoolsAfterClaim(c)
    /\ inflight' = [inflight EXCEPT ![caller] =
                       [pc |-> "awaiting", op |-> "claim_one_time_keys",
                        req |-> query, picked |-> c,
                        dispatched |-> DOMAIN RemoteClaimQueries(query),
                        answered |-> << >>,
                        json_result |-> LocalClaimResult(c),
                        failures |-> << >>]]
    /\ UNCHANGED <<device_keys, ssk, usk, last, claimed>>

\* the federation call of one claim_client_keys completes, with an answer or
\* an exception, and claim_client_keys runs to its end
claim_remote_done(caller, destination, outcome) ==
    LET call == inflight[caller]
        state == claim_client_keys(
                     [json_result |-> call.json_result, failures |-> call.failures],
                     destination, RemoteClaimQueries(call.req)[destination], outcome)
    IN
    /\ call.pc = "awaiting" /\ call.op = "claim_one_time_keys"
    /\ destination \in call.dispatched \ DOMAIN call.answered
    /\ inflight' = [inflight EXCEPT ![caller] =
                       [call EXCEPT !.answered = (destination :> outcome) @@ call.answered,
                                    !.json_result = state.json_result,
                                    !.failures = state.failures]]
    /\ UNCHANGED <<otk, device_keys, ssk, usk, last, claimed>>

\* gatherResults has every claim_client_keys' result: the call returns
claim_return(caller) ==
    LET call == inflight[caller] IN
    /\ call.pc = "awaiting" /\ call.op = "claim_one_time_keys"
    /\ DOMAIN call.answered = call.dispatched
    /\ inflight' = [inflight EXCEPT ![caller] =
                       [pc |-> "returned", op |-> call.op, req |-> call.req,
                        picked |-> call.picked,
                        dispatched |-> call.dispatched,
                        answered |-> call.answered, status |-> 200,
                        res |-> [one_time_keys |-> call.json_result,
                                 failures |-> call.failures]]]
    /\ UNCHANGED <<otk, device_keys, ssk, usk, last, claimed>>

\* query_devices up to the dispatch of the federation calls: the local and
\* the cached devices are in results, and one do_remote_query per
\* destination with a cache miss is started
query_begin(caller, query, cache) ==
    /\ inflight[caller].pc = "idle"
    /\ ~\E u \in DOMAIN query : from_string_raises(u)
    /\ inflight' = [inflight EXCEPT ![caller] =
                       [pc |-> "awaiting", op |-> "query_devices",
                        req |-> query, cache |-> cache,
                        dispatched |-> DOMAIN RemoteDeviceQueries(query, cache),
                        answered |-> << >>,
                        results |-> LocalAndCachedDevices(query, cache),
                        failures |-> << >>]]
    /\ UNCHANGED <<otk, device_keys, ssk, usk, last, claimed>>

\* the federation call of one do_remote_query completes, with an answer or
\* an exception, and do_remote_query runs to its end
query_remote_done(caller, destination, outcome) ==
    LET call == inflight[caller]
        state == do_remote_query(
                     [results |-> call.results, failures |-> call.failures],
                     destination,
                     RemoteDeviceQueries(call.req, call.cache)[destination], outcome)
    IN
    /\ call.pc = "awaiting" /\ call.op = "query_devices"
    /\ destination \in call.dispatched \ DOMAIN call.answered
    /\ inflight' = [inflight EXCEPT ![caller] =
                       [call EXCEPT !.answered = (destination :> outcome) @@ call.answered,
                                    !.results = state.results,
                                    !.failures = state.failures]]
    /\ UNCHANGED <<otk, device_keys, ssk, usk, last, claimed>>

query_return_FirstDone(caller) ==
    LET call == inflight[caller] IN
    /\ call.pc = "awaiting" /\ call.op = "query_devices"
    /\ call.answered # << >> \/ call.dispatched = {}
    /\ inflight' = [inflight EXCEPT ![caller] =
                       [pc |-> "returned", op |-> call.op, req |-> call.req,
                        cache |-> call.cache,
                        dispatched |-> call.dispatched,
                        answered |-> call.answered, status |-> 200,
                        res |-> [device_keys |-> call.results,
                                 failures |-> call.failures,
                                 self_signing_keys |-> SelfSigningKeysOf(call.req)]]]
    /\ UNCHANGED <<otk, device_keys, ssk, usk, last, claimed>>

\* gatherResults has every do_remote_query's result: the self-signing keys
\* are read and the call returns
query_return(caller) ==
    LET call == inflight[caller] IN
    /\ call.pc = "awaiting" /\ call.op = "query_devices"
    /\ DOMAIN call.answered = call.dispatched
    /\ inflight' = [inflight EXCEPT ![caller] =
                       [pc |-> "returned", op |-> call.op, req |-> call.req,
                        cache |-> call.cache,
                        dispatched |-> call.dispatched,
                        answered |-> call.answered, status |-> 200,
                        res |-> [device_keys |-> call.results,
                                 failures |-> call.failures,
                                 self_signing_keys |-> SelfSigningKeysOf(call.req)]]]
    /\ UNCHANGED <<otk, device_keys, ssk, usk, last, claimed>>

\* upload_signing_keys_for_user from the answer of its storage read to the
\* first storage write: the stored self-signing key is read, and both keys of
\* the request are checked against it
signing_begin(caller, user_id, keys) ==
    LET outcome == SigningOutcome(user_id, keys) IN
    /\ inflight[caller].pc = "idle"
    /\ inflight' = [inflight EXCEPT ![caller] =
                       [pc |-> IF outcome.status # 200 THEN "raised"
                               ELSE IF DOMAIN keys = {} THEN "returned"
                               ELSE "validated",
                        op |-> "upload_signing_keys_for_user",
                        user |-> user_id, req |-> keys,
                        old_self_signing_key |-> ssk[user_id],
                        status |-> outcome.status, msg |-> outcome.msg]]
    /\ UNCHANGED <<otk, device_keys, ssk, usk, last, claimed>>

\* set_e2e_self_signing_key takes effect; the call returns if the request
\* has no user-signing key
signing_write_self(caller) ==
    LET call == inflight[caller] IN
    /\ call.pc = "validated"
    /\ "self_signing_key" \in DOMAIN call.req
    /\ ssk' = [ssk EXCEPT ![call.user] = call.req.self_signing_key]
    /\ inflight' = [inflight EXCEPT ![caller].pc =
                       IF "user_signing_key" \in DOMAIN call.req
                       THEN "stored_self" ELSE "returned"]
    /\ UNCHANGED <<otk, device_keys, usk, last, claimed>>

\* set_e2e_user_signing_key takes effect, and the call returns
signing_write_user(caller) ==
    LET call == inflight[caller] IN
    /\ call.pc \in {"validated", "stored_self"}
    /\ "user_signing_key" \in DOMAIN call.req
    /\ call.pc = IF "self_signing_key" \in DOMAIN call.req
                 THEN "stored_self" ELSE "validated"
    /\ usk' = [usk EXCEPT ![call.user] = call.req.user_signing_key]
    /\ inflight' = [inflight EXCEPT ![caller].pc = "returned"]
    /\ UNCHANGED <<otk, device_keys, ssk, last, claimed>>

\* what the store's insert does when a key id to insert is in the pool
\* already: it writes the new value over it, or the insert fails
InsertOutcomes == {"overwrite", "raise"}

\* _upload_one_time_keys_for_user from the answer of get_e2e_one_time_keys to
\* the call of add_e2e_one_time_keys: the keys are compared with the stored
\* ones and the new ones are staged in new_keys, or the call raises the 400
upload_lookup(caller, user_id, device_id, keys, key_list) ==
    LET one_time_keys == keys.one_time_keys
        existing_key_map ==
            get_e2e_one_time_keys(user_id, device_id,
                                  {key_list[i][2] : i \in DOMAIN key_list})
        examined == ExamineKeys(existing_key_map, one_time_keys, key_list, << >>)
    IN
    /\ inflight[caller].pc = "idle"
    /\ keys.device_keys = NoDeviceKeys
    /\ DOMAIN one_time_keys # {}
    /\ key_list \in Orders(DOMAIN one_time_keys)
    /\ inflight' = [inflight EXCEPT ![caller] =
                       [pc |-> IF examined.raised THEN "raised" ELSE "staged",
                        op |-> "upload_keys_for_user", user |-> user_id,
                        device |-> device_id, req |-> keys,
                        status |-> IF examined.raised THEN 400 ELSE 200,
                        new_keys |-> IF examined.raised THEN << >>
                                     ELSE examined.new_keys]]
    /\ UNCHANGED <<otk, device_keys, ssk, usk, last, claimed>>

\* add_e2e_one_time_keys takes effect and the call returns the counts, or
\* the insert fails and the call ends in that error
upload_insert(caller, on_duplicate) ==
    LET call == inflight[caller]
        pool == otk[call.user][call.device]
        duplicates == (DOMAIN call.new_keys) \cap (DOMAIN pool)
    IN
    /\ call.pc = "staged"
    /\ on_duplicate \in InsertOutcomes
    /\ duplicates = {} => on_duplicate = "overwrite"
    /\ IF on_duplicate = "raise"
       THEN /\ otk' = otk
            /\ inflight' = [inflight EXCEPT ![caller] =
                               [call EXCEPT !.pc = "raised", !.status = 500]]
       ELSE /\ otk' = [otk EXCEPT ![call.user][call.device] =
                          add_e2e_one_time_keys(call.user, call.device, call.new_keys)]
            /\ inflight' = [inflight EXCEPT ![caller] =
                               [call EXCEPT !.pc = "returned"]]
    /\ UNCHANGED <<device_keys, ssk, usk, last, claimed>>

(***************************************************************************)
(* Concurrent claims on one pool: the pool is filled, then the callers'    *)
(* claims run step by step, interleaved.                                   *)
(***************************************************************************)
PoolUploads ==
    [device_keys : {NoDeviceKeys},
     one_time_keys : { f \in PartialFns({<<"alg1", "k1">>, <<"alg1", "k2">>},
                                        {Str("key1")}, 2) : f # << >> }]

ConcurrentClaimQueries ==
    { [u \in {"@boris:test"} |-> [xyz |-> "alg1"]],
      [u \in {"@boris:test", "@rita:remote"} |->
          IF u = "@boris:test" THEN [xyz |-> "alg1"] ELSE [rdev |-> "alg1"]] }

\* a remote server's answer to a claim: keys of its users, nothing, or the
\* call raises (the destination is backing off, or the call timed out)
FanOutClaimOutcomes(destination) ==
    { [ok |-> TRUE, one_time_keys |-> [u \in UsersOf(destination) |-> RemoteKeys]],
      [ok |-> TRUE, one_time_keys |-> << >>],
      [ok |-> FALSE, exc |-> [kind |-> "NotRetryingDestination", code |-> 0,
                              msg |-> "Not retrying server."]],
      [ok |-> FALSE, exc |-> [kind |-> "Exception", code |-> 0,
                              msg |-> "Timed out"]] }

FillPool ==
    /\ \A caller \in Callers : inflight[caller] = Idle
    /\ UploadSome(PoolUploads)
    /\ UNCHANGED <<claimed, inflight>>

ClaimBegin ==
    \E caller \in Callers, query \in ConcurrentClaimQueries :
        \E c \in ClaimChoices(ClaimedFromStore(query)) :
            claim_begin(caller, query, c)

ClaimRemoteDone ==
    \E caller \in Callers :
        /\ inflight[caller].pc = "awaiting"
        /\ \E destination \in inflight[caller].dispatched :
              \E outcome \in FanOutClaimOutcomes(destination) :
                  claim_remote_done(caller, destination, outcome)

ClaimReturn == \E caller \in Callers : claim_return(caller)

NextConcurrentClaims == FillPool \/ ClaimBegin \/ ClaimRemoteDone \/ ClaimReturn

SpecConcurrentClaims == Init /\ [][NextConcurrentClaims]_vars

(***************************************************************************)
(* One caller's fan-out, step by step: the federation calls of a device    *)
(* query or a claim complete one by one, in any order.  The fair           *)
(* specification says that every federation call completes or fails in the *)
(* end, and that a call whose awaited results are all there is resumed.    *)
(***************************************************************************)
FanOutCallers == {"c1"}

FanOutQueries ==
    { q \in PartialFns({"@boris:test", "@rita:remote", "@zoe:elsewhere"}, {{}}, 3) :
        q # << >> }

FanOutClaimQueries ==
    { [u \in S |-> IF is_mine(u) THEN [xyz |-> "alg1"] ELSE [rdev |-> "alg1"]] :
        S \in (SUBSET {"@boris:test", "@rita:remote", "@zoe:elsewhere"}) \ {{}} }

\* a remote server's answer to a device query, or the exception raised
FanOutQueryOutcomes(destination) ==
    { [ok |-> TRUE,
       device_keys |-> [u \in UsersOf(destination) |->
                           [d \in {"rdev"} |-> [keys |-> "remote", unsigned |-> << >>]]]],
      [ok |-> TRUE, device_keys |-> << >>],
      [ok |-> FALSE, exc |-> [kind |-> "NotRetryingDestination", code |-> 0,
                              msg |-> "Not retrying server."]],
      [ok |-> FALSE, exc |-> [kind |-> "Exception", code |-> 0,
                              msg |-> "Timed out"]] }

UploadForFanOut ==
    /\ UploadSome(DirectoryUploads)
    /\ UNCHANGED <<claimed, inflight>>

QueryBegin ==
    \E caller \in FanOutCallers, query \in FanOutQueries, cache \in DeviceCaches :
        query_begin(caller, query, cache)

QueryRemoteDone(caller) ==
    /\ inflight[caller].pc = "awaiting"
    /\ \E destination \in inflight[caller].dispatched :
          \E outcome \in FanOutQueryOutcomes(destination) :
              query_remote_done(caller, destination, outcome)

QueryReturn(caller) == query_return(caller)

FanOutClaimBegin ==
    \E caller \in FanOutCallers, query \in FanOutClaimQueries :
        \E c \in ClaimChoices(ClaimedFromStore(query)) :
            claim_begin(caller, query, c)

FanOutClaimRemoteDone(caller) ==
    /\ inflight[caller].pc = "awaiting"
    /\ \E destination \in inflight[caller].dispatched :
          \E outcome \in FanOutClaimOutcomes(destination) :
              claim_remote_done(caller, destination, outcome)

FanOutClaimReturn(caller) == claim_return(caller)

\* the caller takes the result, and may call again
TakeResult ==
    /\ \E caller \in FanOutCallers :
          /\ inflight[caller].pc = "returned"
          /\ inflight' = [inflight EXCEPT ![caller] = Idle]
    /\ UNCHANGED <<otk, device_keys, ssk, usk, last, claimed>>

NextFanOut ==
    \/ UploadForFanOut
    \/ QueryBegin
    \/ \E caller \in FanOutCallers : QueryRemoteDone(caller)
    \/ \E caller \in FanOutCallers : QueryReturn(caller)
    \/ FanOutClaimBegin
    \/ \E caller \in FanOutCallers : FanOutClaimRemoteDone(caller)
    \/ \E caller \in FanOutCallers : FanOutClaimReturn(caller)
    \/ TakeResult

SpecFanOut == Init /\ [][NextFanOut]_vars

FairFanOut ==
    /\ SpecFanOut
    /\ \A caller \in FanOutCallers :
          /\ WF_vars(QueryRemoteDone(caller))
          /\ WF_vars(QueryReturn(caller))
          /\ WF_vars(FanOutClaimRemoteDone(caller))
          /\ WF_vars(FanOutClaimReturn(caller))

(***************************************************************************)
(* Concurrent uploads of self-signing keys by one user: A is the first     *)
(* key, B and C each replace A, D replaces B.                              *)
(***************************************************************************)
ChainKey(name, replaced) ==
    KeyInfo("@boris:test", "self_signing", {name}) @@ [replaces |-> replaced]

ChainRequests ==
    { [self_signing_key |-> KeyInfo("@boris:test", "self_signing", {"A"})],
      [self_signing_key |-> ChainKey("B", "A")],
      [self_signing_key |-> ChainKey("C", "A")],
      [self_signing_key |-> ChainKey("D", "B")],
      [self_signing_key |-> ChainKey("B", "A"),
       user_signing_key |->
           LET v == KeyInfo("@boris:test", "user_signing", {"U"}) IN
           v @@ [signatures |-> [u \in {"@boris:test"} |->
                                    [k \in {KeyId("B")} |-> Sign("B", v)]]]] }

SigningBegin ==
    \E caller \in Callers, keys \in ChainRequests :
        signing_begin(caller, "@boris:test", keys)

SigningWriteSelf == \E caller \in Callers : signing_write_self(caller)

SigningWriteUser == \E caller \in Callers : signing_write_user(caller)

\* the caller takes the result or the error, and may call again
SigningTakeResult ==
    /\ \E caller \in Callers :
          /\ inflight[caller].pc \in {"returned", "raised"}
          /\ inflight' = [inflight EXCEPT ![caller] = Idle]
    /\ UNCHANGED <<otk, device_keys, ssk, usk, last, claimed>>

NextConcurrentSigning ==
    SigningBegin \/ SigningWriteSelf \/ SigningWriteUser \/ SigningTakeResult

SpecConcurrentSigning == Init /\ [][NextConcurrentSigning]_vars

(***************************************************************************)
(* Concurrent uploads of one-time keys to one device.                      *)
(***************************************************************************)
ConcurrentUploads ==
    [device_keys : {NoDeviceKeys},
     one_time_keys : { f \in PartialFns({<<"alg1", "k1">>, <<"alg1", "k2">>},
                                        {Str("key1"), Str("key2")}, 2) : f # << >> }]

UploadLookup ==
    \E caller \in Callers, keys \in ConcurrentUploads :
        \E key_list \in Orders(DOMAIN keys.one_time_keys) :
            upload_lookup(caller, "@boris:test", "xyz", keys, key_list)

UploadInsert ==
    \E caller \in Callers, on_duplicate \in InsertOutcomes :
        upload_insert(caller, on_duplicate)

\* the caller takes the result or the error, and may call again
UploadTakeResult ==
    /\ \E caller \in Callers :
          /\ inflight[caller].pc \in {"returned", "raised"}
          /\ inflight' = [inflight EXCEPT ![caller] = Idle]
    /\ UNCHANGED <<otk, device_keys, ssk, usk, last, claimed>>

NextConcurrentUploads == UploadLookup \/ UploadInsert \/ UploadTakeResult

SpecConcurrentUploads == Init /\ [][NextConcurrentUploads]_vars

(***************************************************************************)
(* Device queries through the device-list cache: two users of one remote   *)
(* server, one of another, each cached or not.                             *)
(***************************************************************************)
CacheUsers == LocalUsers \cup {"@rita:remote", "@mallory:remote", "@zoe:elsewhere"}

CacheQueries ==
    { q \in PartialFns(CacheUsers, {{}, {"rdev"}}, 4) :
        \A u \in DOMAIN q : q[u] # {} => u = "@mallory:remote" }

\* what get_user_devices_from_cache finds: any of the remote users asked for
UserCaches(query) ==
    UNION { [S -> {[rdev |-> [keys |-> "cached", device_display_name |-> "phone"]]}] :
              S \in SUBSET {u \in DOMAIN query : ~is_mine(u)} }

\* a remote server answers for the users it was asked about, or the call raises
CacheOutcomes(destination_query) ==
    { [ok |-> TRUE,
       device_keys |-> [u \in DOMAIN destination_query |->
                           [d \in {"rdev"} |-> [keys |-> "remote", unsigned |-> << >>]]]],
      [ok |-> FALSE, exc |-> [kind |-> "NotRetryingDestination"]] }

QueryThroughCache ==
    /\ \E query \in CacheQueries :
          \E cache \in UserCaches(query) :
              \E fed \in [QueryDestinations(query, cache) ->
                             UNION {CacheOutcomes(RemoteDeviceQueries(query, cache)[dest]) :
                                       dest \in QueryDestinations(query, cache)}] :
                  /\ \A dest \in DOMAIN fed :
                        fed[dest] \in CacheOutcomes(RemoteDeviceQueries(query, cache)[dest])
                  /\ \E order \in CompletionOrders(DOMAIN fed) :
                        query_devices(query, cache, fed, order)
    /\ UNCHANGED <<claimed, inflight>>

NextDeviceCache == QueryThroughCache

SpecDeviceCache == Init /\ [][NextDeviceCache]_vars

BatchUploads ==
    [device_keys : {NoDeviceKeys} \cup DeviceKeyObjects \cup {"dk2"},
     one_time_keys : PartialFns(OneTimeKeyIds, {Str("key1"), Str("key2")},
                                MaxBatchKeys)]

UploadBatch ==
    /\ UploadSome(BatchUploads)
    /\ UNCHANGED <<claimed, inflight>>

NextUploadBatch == UploadBatch

SpecUploadBatch == Init /\ [][NextUploadBatch]_vars

(***************************************************************************)
(* Device signatures: a user with device keys and signing keys uploads     *)
(* signed copies of device key objects.                                    *)
(***************************************************************************)
\* the device key object of the store as JSON
DeviceKeyJson(dk) == [device_keys |-> dk]

\* signed device key objects: signed by the key `name` over the object, with
\* a bad signature, or without signatures
SignedDeviceKeys(user_id, name) ==
    {DeviceKeyJson(dk) @@ [unsigned |-> << >>,
                           signatures |-> [u \in {user_id} |->
                               [k \in {KeyId(name)} |-> Sign(name, DeviceKeyJson(dk))]]] :
        dk \in DeviceKeyObjects \cup {"stale"}}
    \cup {DeviceKeyJson(dk) @@ [unsigned |-> << >>,
                                signatures |-> [u \in {user_id} |->
                                    [k \in {KeyId(name)} |-> BadSignature]]] :
            dk \in DeviceKeyObjects}
    \cup {DeviceKeyJson(dk) @@ [unsigned |-> << >>] : dk \in DeviceKeyObjects}

SignatureUploads ==
    UNION { [{u} -> PartialFns(Devices \cup {"ghost"}, SignedDeviceKeys(u, "A"), 2)] :
            u \in LocalUsers }

\* the signing keys of the user: a first self-signing key A, alone or with a
\* user-signing key U signed by A
SigningSetups ==
    LET A == KeyInfo("@boris:test", "self_signing", {"A"})
        U == KeyInfo("@boris:test", "user_signing", {"U"})
    IN  { [self_signing_key |-> A],
          [self_signing_key |-> A,
           user_signing_key |-> U @@ [signatures |-> [u \in {"@boris:test"} |->
                                         [k \in {KeyId("A")} |-> Sign("A", U)]]]] }

UploadDeviceKeys ==
    /\ UploadSome(DirectoryUploads)
    /\ UNCHANGED <<claimed, inflight>>

SetUpSigningKeys ==
    /\ \E u \in LocalUsers, keys \in SigningSetups :
          upload_signing_keys_for_user(u, keys)
    /\ UNCHANGED <<claimed, inflight>>

UploadDeviceSignatures ==
    /\ \E u \in LocalUsers, signatures \in SignatureUploads :
          \E returns_deferred \in BOOLEAN :
              upload_signatures_for_device_keys(u, signatures, returns_deferred)
    /\ UNCHANGED <<claimed, inflight>>

NextDeviceSignatures ==
    \/ UploadDeviceKeys
    \/ SetUpSigningKeys
    \/ UploadDeviceSignatures

SpecDeviceSignatures == Init /\ [][NextDeviceSignatures]_vars

(***************************************************************************)
(* Properties of the one-time key protocol.                                *)
(***************************************************************************)
\* the key a claim result holds for (u, d), as a set of <<key id, key>>
KeysFor(result, u, d) ==
    IF u \in DOMAIN result /\ d \in DOMAIN result[u]
    THEN {<<k, result[u][d][k]>> : k \in DOMAIN result[u][d]}
    ELSE {}

C2_ConsumeOnce ==
    [][ last'.op = "claim_one_time_keys" =>
          ReturnedKeys(last') \cap claimed = {} ]_vars

\* two key values that are equal once `signatures` is left out of objects
SameIgnoringSignatures(a, b) ==
    /\ a.t = b.t
    /\ IF a.t = "dict"
       THEN Pop(a.v, "signatures") = Pop(b.v, "signatures")
       ELSE a.v = b.v

\* every entry of the request is stored already, with the same content
IsReupload(pool, one_time_keys) ==
    /\ DOMAIN one_time_keys # {}
    /\ \A k \in DOMAIN one_time_keys :
         /\ k \in DOMAIN pool
         /\ SameIgnoringSignatures(json_loads(pool[k]), one_time_keys[k])

\* C3: an upload whose one-time keys are all stored already and unchanged
\* apart from `signatures` does not raise, leaves the pool as it was, and
\* returns the counts of the stored pool: the counts a first upload of the
\* same keys returned just before.
C3_ReuploadIdempotent ==
    [][ (/\ last'.op = "upload_keys_for_user"
         /\ IsReupload(otk[last'.user][last'.device], last'.req.one_time_keys))
        => /\ last'.status = 200
           /\ otk' = otk
           /\ last'.res.one_time_key_counts
                = count_e2e_one_time_keys(otk[last'.user][last'.device])
           /\ (/\ last.op = "upload_keys_for_user"
               /\ last.status = 200
               /\ last.user = last'.user /\ last.device = last'.device
               /\ DOMAIN last.req.one_time_keys = DOMAIN last'.req.one_time_keys)
              => last'.res = last.res ]_vars

\* C3 witness: an accepted upload of a stored key with another signature
C3_Witness ==
    /\ last.op = "upload_keys_for_user"
    /\ last.status = 200
    /\ \E k \in DOMAIN last.req.one_time_keys :
         /\ k \in DOMAIN otk[last.user][last.device]
         /\ last.req.one_time_keys[k].t = "dict"
         /\ json_loads(otk[last.user][last.device][k]) # last.req.one_time_keys[k]

\* C4: an upload holding a key whose (algorithm, key id) is stored with other
\* content, ignoring `signatures`, is rejected with a 400 and the pool is left
\* as it was; this covers string/string, string/object, object/string and
\* object/object conflicts.
C4_ChangedKeyRejected ==
    [][ (/\ last'.op = "upload_keys_for_user"
         /\ \E k \in DOMAIN last'.req.one_time_keys :
              /\ k \in DOMAIN otk[last'.user][last'.device]
              /\ ~SameIgnoringSignatures(
                    json_loads(otk[last'.user][last'.device][k]),
                    last'.req.one_time_keys[k]))
        => /\ last'.status = 400
           /\ otk' = otk ]_vars

\* a rejected upload of a key of shape `new` over a stored key of shape `old`
RejectedChange(old, new) ==
    /\ last.op = "upload_keys_for_user"
    /\ last.status = 400
    /\ \E k \in DOMAIN last.req.one_time_keys :
         /\ k \in DOMAIN otk[last.user][last.device]
         /\ json_loads(otk[last.user][last.device][k]).t = old
         /\ last.req.one_time_keys[k].t = new

\* C4 witness: an object rejected over a stored object with another key field
C4_Witness ==
    /\ RejectedChange("dict", "dict")
    /\ \E k \in DOMAIN last.req.one_time_keys :
         /\ k \in DOMAIN otk[last.user][last.device]
         /\ last.req.one_time_keys[k].v.key
              # json_loads(otk[last.user][last.device][k]).v.key

(***************************************************************************)
(* Properties of the cross-signing protocol.                               *)
(***************************************************************************)
IsSigningUpload(call) == call.op = "upload_signing_keys_for_user"

SuppliesSelfSigningKey(call) ==
    IsSigningUpload(call) /\ "self_signing_key" \in DOMAIN call.req

SuppliesUserSigningKey(call) ==
    IsSigningUpload(call) /\ "user_signing_key" \in DOMAIN call.req

\* the key id of a stored (hence single-key) signing key
StoredKeyId(key_info) == CHOOSE k \in DOMAIN key_info.keys : TRUE

\* key `replaces` the stored key `old`
ReplacesStored(key, old) ==
    "replaces" \in DOMAIN key /\ key.replaces = BareId(StoredKeyId(old))

\* key carries a signature entry of user_id under the key id of `signer`
HasSignatureEntry(key, user_id, signer) ==
    /\ "signatures" \in DOMAIN key
    /\ user_id \in DOMAIN key.signatures
    /\ StoredKeyId(signer) \in DOMAIN key.signatures[user_id]

\* that entry is a signature by `signer` over the key without its signatures
SignatureVerifies(key, user_id, signer) ==
    /\ HasSignatureEntry(key, user_id, signer)
    /\ key.signatures[user_id][StoredKeyId(signer)]
         = Sign(signer.keys[StoredKeyId(signer)], Pop(key, "signatures"))

\* user_id, usage and exactly one verify key are as a self-signing key needs
StructurallyValid(key, user_id) ==
    /\ key.user_id = user_id
    /\ "self_signing" \in key.usage
    /\ "keys" \in DOMAIN key
    /\ Cardinality(DOMAIN key.keys) = 1

\* C5: with a self-signing key stored, an upload whose self_signing_key has
\* no `replaces`, or a `replaces` that is not the stored key's bare id, or the
\* right `replaces` and a `signatures` block that does not verify under the
\* stored key, ends in a 400 and leaves the stored key in place.
C5_BadReplacementRejected ==
    [][ \A u \in LocalUsers :
          (/\ SuppliesSelfSigningKey(last') /\ last'.user = u
           /\ ssk[u] # None
           /\ LET key == last'.req.self_signing_key IN
              \/ "replaces" \notin DOMAIN key
              \/ ~ReplacesStored(key, ssk[u])
              \/ /\ ReplacesStored(key, ssk[u])
                 /\ "signatures" \in DOMAIN key
                 /\ ~SignatureVerifies(key, u, ssk[u]))
          => last'.status = 400 /\ ssk' = ssk ]_vars

\* C5 witness: the right `replaces`, and a bad signature under the old key id
C5_Witness ==
    /\ SuppliesSelfSigningKey(last)
    /\ last.status = 400
    /\ ssk[last.user] # None
    /\ ReplacesStored(last.req.self_signing_key, ssk[last.user])
    /\ HasSignatureEntry(last.req.self_signing_key, last.user, ssk[last.user])
    /\ ~SignatureVerifies(last.req.self_signing_key, last.user, ssk[last.user])

\* C5, the other two cases reached: no `replaces`, a wrong `replaces`
C5_WitnessNoReplaces ==
    /\ SuppliesSelfSigningKey(last)
    /\ last.msg = "A self-signing key already exists"
    /\ ssk[last.user] # None

C5_WitnessWrongReplaces ==
    /\ SuppliesSelfSigningKey(last)
    /\ last.msg = "Incorrect replaces property"
    /\ ssk[last.user] # None

C7_SignedReplacementCurrent ==
    /\ [][ \A u \in LocalUsers :
             (/\ SuppliesSelfSigningKey(last') /\ last'.user = u
              /\ ~SuppliesUserSigningKey(last')
              /\ ssk[u] # None
              /\ StructurallyValid(last'.req.self_signing_key, u)
              /\ ReplacesStored(last'.req.self_signing_key, ssk[u])
              /\ SignatureVerifies(last'.req.self_signing_key, u, ssk[u]))
             => /\ last'.status = 200
                /\ ssk'[u] = last'.req.self_signing_key ]_vars
    /\ [][ \A u \in LocalUsers :
             ssk'[u] # ssk[u]
             => /\ SuppliesSelfSigningKey(last') /\ last'.user = u
                /\ last'.status = 200
                /\ ssk'[u] = last'.req.self_signing_key ]_vars
    /\ [](last.op = "query_devices"
            => \A u \in {x \in DOMAIN last.req : is_mine(x)} :
                 /\ u \in DOMAIN last.res.self_signing_keys
                 /\ last.res.self_signing_keys[u] = ssk[u])

\* C7 witness: a query reports a stored key that replaced another and carries
\* the old key's signature
C7_Witness ==
    /\ last.op = "query_devices"
    /\ \E u \in DOMAIN last.res.self_signing_keys :
         LET key == last.res.self_signing_keys[u] IN
         /\ key # None
         /\ "replaces" \in DOMAIN key
         /\ "signatures" \in DOMAIN key
         /\ key.replaces # BareId(StoredKeyId(key))

\* C8 (as claimed): with no self-signing key stored, an upload of a
\* structurally valid self_signing_key, alone, is accepted whatever `replaces`
\* or `signatures` it carries, and becomes the stored key.
C8_FirstKeyAccepted ==
    [][ \A u \in LocalUsers :
          (/\ SuppliesSelfSigningKey(last') /\ last'.user = u
           /\ ~SuppliesUserSigningKey(last')
           /\ ssk[u] = None
           /\ StructurallyValid(last'.req.self_signing_key, u))
          => /\ last'.status = 200
             /\ ssk'[u] = last'.req.self_signing_key ]_vars

\* C8 (amended): with no self-signing key stored, an upload of a structurally
\* valid self_signing_key, alone, that carries no `signatures` block is
\* accepted whatever `replaces` it carries, and becomes the stored key; one
\* that carries a `signatures` block is rejected with a 400 and nothing is
\* stored.
C8_FirstUnsignedKeyAccepted ==
    [][ \A u \in LocalUsers :
          (/\ SuppliesSelfSigningKey(last') /\ last'.user = u
           /\ ~SuppliesUserSigningKey(last')
           /\ ssk[u] = None
           /\ StructurallyValid(last'.req.self_signing_key, u))
          => IF "signatures" \notin DOMAIN last'.req.self_signing_key
             THEN /\ last'.status = 200
                  /\ ssk'[u] = last'.req.self_signing_key
             ELSE /\ last'.status = 400
                  /\ ssk' = ssk ]_vars

\* C8 witness: a first key with a `replaces` field has been accepted
C8_Witness ==
    /\ SuppliesSelfSigningKey(last)
    /\ ~SuppliesUserSigningKey(last)
    /\ ~last.had_old_key
    /\ last.status = 200
    /\ "replaces" \in DOMAIN last.req.self_signing_key
    /\ ssk[last.user] = last.req.self_signing_key

\* C8, the other case reached: a first key with signatures has been rejected
C8_WitnessSigned ==
    /\ SuppliesSelfSigningKey(last)
    /\ ~last.had_old_key
    /\ last.msg = "Invalid signature"
    /\ ssk[last.user] = None

\* C9 (as claimed): whatever is stored, an upload of a user_signing_key that
\* carries no signature of the user by the self-signing key in force (the one
\* supplied in the call, else the stored one), or one that does not verify,
\* ends in a 400 and leaves the stored user-signing key in place.
C9_UnsignedUserKeyRejected ==
    [][ \A u \in LocalUsers :
          (/\ SuppliesUserSigningKey(last') /\ last'.user = u
           /\ last'.req.user_signing_key.user_id = u
           /\ "user_signing" \in last'.req.user_signing_key.usage
           /\ LET current == IF SuppliesSelfSigningKey(last')
                             THEN last'.req.self_signing_key
                             ELSE ssk[u]
              IN  \/ current = None
                  \/ ~StructurallyValid(current, u)
                  \/ ~SignatureVerifies(last'.req.user_signing_key, u, current))
          => last'.status = 400 /\ usk' = usk ]_vars

\* C10 (as claimed): a stored user-signing key carries a signature of the
\* user that verifies under the stored self-signing key.
C10_UserKeySignedByCurrent ==
    \A u \in LocalUsers :
        usk[u] # None
        => /\ ssk[u] # None
           /\ SignatureVerifies(usk[u], u, ssk[u])

(***************************************************************************)
(* Properties of the key directory.                                        *)
(***************************************************************************)
\* a request without the given users
WithoutUsers(query, users) == [u \in (DOMAIN query) \ users |-> query[u]]

\* a function restricted to part of its domain
Restrict(f, S) == [x \in S |-> f[x]]

IsQuery(call) == call.op = "query_devices" /\ call.status = 200
IsClaim(call) == call.op = "claim_one_time_keys" /\ call.status = 200

\* the destinations whose federation call raised
FailedDestinations(call) == {dest \in DOMAIN call.fed : ~call.fed[dest].ok}

\* C11: in query_devices and in claim_one_time_keys, when the federation call
\* to some destinations raises (whatever the exception), the call still
\* returns, failures has an entry for exactly the destinations that raised,
\* and the keys returned are those of the same call made without the users
\* asked of those destinations: the other destinations' and the local users'
\* results are untouched.
C11_FailureIsolation ==
    /\ []((last.op = "query_devices"
            /\ \A u \in DOMAIN last.req : ~from_string_raises(u)) =>
            LET failed == FailedDestinations(last)
                others == (DOMAIN last.fed) \ failed
                remote_queries == RemoteDeviceQueries(last.req, last.cache)
                asked == UNION {DOMAIN remote_queries[dest] : dest \in failed}
            IN  /\ last.status = 200
                /\ DOMAIN last.res.failures = failed
                /\ \A order \in CompletionOrders(others) :
                      last.res.device_keys =
                          QueryResult(WithoutUsers(last.req, asked), last.cache,
                                      Restrict(last.fed, others), order).device_keys)
    /\ [][ (last'.op = "claim_one_time_keys"
             /\ \A u \in DOMAIN last'.req : ~from_string_raises(u)) =>
            LET failed == FailedDestinations(last')
                others == (DOMAIN last'.fed) \ failed
                remote_queries == RemoteClaimQueries(last'.req)
                asked == UNION {DOMAIN remote_queries[dest] : dest \in failed}
            IN  /\ last'.status = 200
                /\ DOMAIN last'.res.failures = failed
                /\ \A order \in CompletionOrders(others) :
                      last'.res.one_time_keys =
                          ClaimResult(WithoutUsers(last'.req, asked),
                                      Restrict(last'.fed, others),
                                      last'.picked, order).one_time_keys ]_vars

\* C11 witness: a claim for a local user and users of two remote servers; the
\* call to one server raised, the local key and the other server's keys are
\* returned
C11_Witness ==
    /\ IsClaim(last)
    /\ DOMAIN last.res.failures = {"remote"}
    /\ DOMAIN last.res.one_time_keys = {"@boris:test", "@zoe:elsewhere"}
    /\ last.res.one_time_keys["@zoe:elsewhere"] = RemoteKeys

\* the same for a device query
C11_WitnessQuery ==
    /\ IsQuery(last)
    /\ DOMAIN last.res.failures = {"elsewhere"}
    /\ DOMAIN last.res.device_keys = {"@boris:test", "@rita:remote"}
    /\ "rdev" \in DOMAIN last.res.device_keys["@rita:remote"]
    /\ "xyz" \in DOMAIN last.res.device_keys["@boris:test"]

\* C12: the failure recorded for a destination whose call raised is: for a
\* CodeMessageException its code and its message; for NotRetryingDestination
\* 503 "Not ready for retry"; for FederationDeniedError 403 "Federation
\* Denied"; for any other exception 503 and its string.
C12_FailureRecords ==
    (IsQuery(last) \/ IsClaim(last)) =>
        \A dest \in FailedDestinations(last) :
            LET e == last.fed[dest].exc
                failure == last.res.failures[dest]
            IN  /\ e.kind = "CodeMessageException"
                     => failure.status = e.code /\ failure.message = e.msg
                /\ e.kind = "NotRetryingDestination"
                     => failure.status = 503 /\ failure.message = "Not ready for retry"
                /\ e.kind = "FederationDeniedError"
                     => failure.status = 403 /\ failure.message = "Federation Denied"
                /\ e.kind = "Exception"
                     => failure.status = 503 /\ failure.message = e.msg

\* C12 witness: one call whose two destinations raised "not retrying" and
\* "federation denied"
C12_Witness ==
    /\ IsQuery(last)
    /\ DOMAIN last.res.failures = {"remote", "elsewhere"}
    /\ last.fed["remote"].exc.kind = "NotRetryingDestination"
    /\ last.res.failures["remote"] = [status |-> 503, message |-> "Not ready for retry"]
    /\ last.fed["elsewhere"].exc.kind = "FederationDeniedError"

\* the other two kinds
C12_WitnessCoded ==
    /\ IsClaim(last)
    /\ DOMAIN last.res.failures = {"remote", "elsewhere"}
    /\ last.res.failures["remote"] = [status |-> 502, message |-> "Bad Gateway"]
    /\ last.res.failures["elsewhere"] = [status |-> 503, message |-> "Connection refused"]

\* the user has no device with keys in the store
NoStoredDevices(u) ==
    u \notin DOMAIN device_keys
    \/ \A d \in DOMAIN device_keys[u] : device_keys[u][d] = NoDeviceKeys

\* C13: when query_local_devices returns, every user id of the request is a
\* key of the result, and a user without stored devices maps to the empty
\* mapping.
C13_EveryUserPresent ==
    (last.op = "query_local_devices" /\ last.status = 200) =>
        \A u \in DOMAIN last.req :
            /\ u \in DOMAIN last.res
            /\ NoStoredDevices(u) => last.res[u] = << >>

\* C13 witness: the test's query, {local_user: None}, with no device stored
C13_Witness ==
    /\ last.op = "query_local_devices"
    /\ last.status = 200
    /\ DOMAIN last.req = {"@boris:test"}
    /\ NoStoredDevices("@boris:test")
    /\ last.res = [u \in {"@boris:test"} |-> << >>]

\* C14: a call of query_local_devices, or of on_federation_query_client_keys,
\* whose request names a user that is not local ends in a 400 and returns
\* nothing, whatever local users the request also names; the error is "Not a
\* user here" (when the request also holds an id that is no user id at all,
\* the 400 may be the one of that id).  A federation query of local users only
\* returns the result of query_local_devices under device_keys.
C14_NoPartialSuccess ==
    /\ (last.op \in {"query_local_devices", "on_federation_query_client_keys"}
        /\ \E u \in DOMAIN last.req : ~is_mine(u))
       => /\ last.status = 400
          /\ last.res = NoResult
          /\ (\A u \in DOMAIN last.req : ~from_string_raises(u))
                => last.msg = "Not a user here"
    /\ (last.op = "on_federation_query_client_keys" /\ last.status = 200)
       => last.res = [device_keys |-> query_local_devices(last.req)]

\* C14 witness: a federation query for a local user with stored device keys
\* and a user of another server
C14_Witness ==
    /\ last.op = "on_federation_query_client_keys"
    /\ DOMAIN last.req = {"@boris:test", "@rita:remote"}
    /\ ~NoStoredDevices("@boris:test")
    /\ last.status = 400
    /\ last.msg = "Not a user here"

\* the same for the direct call
C14_WitnessDirect ==
    /\ last.op = "query_local_devices"
    /\ DOMAIN last.req = {"@boris:test", "@zoe:elsewhere"}
    /\ ~NoStoredDevices("@boris:test")
    /\ last.status = 400

\* C17: the device_keys and failures that query_devices returns are those of
\* every order in which its federation calls can complete; a local user's
\* entry is the local result, and a remote user's entry is what the cache
\* held or what the user's own server answered.
C17_OrderIndependent ==
    IsQuery(last) =>
        LET remote_queries == RemoteDeviceQueries(last.req, last.cache)
            base == LocalAndCachedDevices(last.req, last.cache)
        IN  /\ \A order \in CompletionOrders(DOMAIN last.fed) :
                  LET other == QueryResult(last.req, last.cache, last.fed, order)
                  IN  /\ other.device_keys = last.res.device_keys
                      /\ other.failures = last.res.failures
            /\ \A u \in DOMAIN last.res.device_keys :
                  LET own == get_domain_from_id(u) IN
                  IF is_mine(u)
                  THEN u \in DOMAIN base /\ last.res.device_keys[u] = base[u]
                  ELSE \/ u \in DOMAIN base /\ last.res.device_keys[u] = base[u]
                       \/ /\ own \in DOMAIN last.fed
                          /\ last.fed[own].ok
                          /\ u \in DOMAIN remote_queries[own]
                          /\ u \in DOMAIN last.fed[own].device_keys
                          /\ last.res.device_keys[u] = last.fed[own].device_keys[u]

\* C17 witness: two servers were asked; one answered for its own user, the
\* other with entries for every user, among them the first server's user and
\* the local user
C17_Witness ==
    /\ IsQuery(last)
    /\ DOMAIN last.fed = {"remote", "elsewhere"}
    /\ last.fed["remote"].ok
    /\ last.fed["elsewhere"].ok
    /\ DOMAIN last.fed["remote"].device_keys = {"@rita:remote"}
    /\ "@rita:remote" \in DOMAIN last.fed["elsewhere"].device_keys
    /\ "@boris:test" \in DOMAIN last.fed["elsewhere"].device_keys
    /\ "@boris:test" \in DOMAIN last.req
    /\ "rdev" \in DOMAIN last.res.device_keys["@rita:remote"]

\* C18: a call of query_devices or claim_one_time_keys whose request holds an
\* id that is no user id ends in a 400 before anything was done: no store
\* method was called, no federation request was sent, and no one-time key of
\* any user left the pool.
C18_MalformedIdFailsFirst ==
    [][ (/\ last'.op \in {"query_devices", "claim_one_time_keys"}
         /\ \E u \in DOMAIN last'.req : from_string_raises(u))
        => /\ last'.status = 400
           /\ last'.res = NoResult
           /\ last'.store_calls = {}
           /\ DOMAIN last'.fed = {}
           /\ otk' = otk ]_vars

\* C18 witness: a claim for an id that is no user id and for a local user
\* whose pool holds a key of the algorithm asked for
C18_Witness ==
    /\ last.op = "claim_one_time_keys"
    /\ last.status = 400
    /\ "boris" \in DOMAIN last.req
    /\ "@boris:test" \in DOMAIN last.req
    /\ "@rita:remote" \in DOMAIN last.req
    /\ <<"alg1", "k1">> \in DOMAIN otk["@boris:test"]["xyz"]

\* the same for a device query
C18_WitnessQuery ==
    /\ last.op = "query_devices"
    /\ last.status = 400
    /\ DOMAIN last.req = {"boris", "@boris:test", "@zoe:elsewhere"}

(***************************************************************************)
(* Properties of uploads of batches.                                       *)
(***************************************************************************)
\* the entries of a request that are stored with other content
ChangedEntries(pool, one_time_keys) ==
    {k \in DOMAIN one_time_keys :
        /\ k \in DOMAIN pool
        /\ ~SameIgnoringSignatures(json_loads(pool[k]), one_time_keys[k])}

\* the entries of a request that are not stored
AbsentEntries(pool, one_time_keys) ==
    {k \in DOMAIN one_time_keys : k \notin DOMAIN pool}

\* C19: when an upload holds an entry that conflicts with a stored key and
\* also entries that are not stored yet, it is rejected and none of the new
\* entries is in the pool afterwards, in whatever order the entries of the
\* request were examined: the pool is as it was.
C19_UploadAllOrNothing ==
    [][ (/\ last'.op = "upload_keys_for_user"
         /\ ChangedEntries(otk[last'.user][last'.device],
                           last'.req.one_time_keys) # {}
         /\ AbsentEntries(otk[last'.user][last'.device],
                          last'.req.one_time_keys) # {})
        => /\ last'.status = 400
           /\ \A k \in AbsentEntries(otk[last'.user][last'.device],
                                     last'.req.one_time_keys) :
                 k \notin DOMAIN otk'[last'.user][last'.device]
           /\ otk' = otk ]_vars

\* C19 witness: a rejected upload of one changed and one new key
C19_Witness ==
    /\ last.op = "upload_keys_for_user"
    /\ last.status = 400
    /\ ChangedEntries(otk[last.user][last.device], last.req.one_time_keys) # {}
    /\ AbsentEntries(otk[last.user][last.device], last.req.one_time_keys) # {}

\* C20 (as claimed): an upload rejected for a conflicting one-time key leaves
\* the stored device keys as they were and sends no device-list notification,
\* also when the request carried device_keys.
C20_RejectedUploadChangesNothing ==
    [][ (last'.op = "upload_keys_for_user" /\ last'.status = 400)
        => /\ device_keys' = device_keys
           /\ ~last'.notified ]_vars

(***************************************************************************)
(* Properties of device signature uploads.                                 *)
(***************************************************************************)
\* the key of the signer that an entry for target_user must be signed with
SignerKey(signer, target_user) ==
    IF target_user = signer THEN ssk[signer] ELSE usk[signer]

\* the entries of a batch that are valid: the target device has stored keys,
\* the entry is signed by the signer under the signer's key id, its payload
\* is the stored device key object, and the signature verifies
ValidEntries(signer, signatures) ==
    {e \in UNION {{<<u, d>> : d \in DOMAIN signatures[u]} : u \in DOMAIN signatures} :
        LET entry == signatures[e[1]][e[2]]
            key == SignerKey(signer, e[1])
        IN  /\ e[1] \in DOMAIN device_keys
            /\ e[2] \in DOMAIN device_keys[e[1]]
            /\ device_keys[e[1]][e[2]] # NoDeviceKeys
            /\ _get_verify_key_error(key) = "ok"
            /\ Pop(Pop(entry, "signatures"), "unsigned")
                 = DeviceKeyJson(device_keys[e[1]][e[2]])
            /\ verify_signed_json(entry, signer, _get_verify_key_from_key_info(key))}

\* what the store gets for the valid entries: (key id, user, device, signature)
SignaturesOf(signer, signatures, entries) ==
    {<<_get_verify_key_from_key_info(SignerKey(signer, e[1])).key_id, e[1], e[2],
       signatures[e[1]][e[2]].signatures[signer][
           _get_verify_key_from_key_info(SignerKey(signer, e[1])).key_id]>> :
        e \in entries}

\* the (target user, target device) pairs of a batch
EntriesOf(signatures) ==
    UNION {{<<u, d>> : d \in DOMAIN signatures[u]} : u \in DOMAIN signatures}

\* C15 (as claimed): an upload of device signatures, by a user who has both
\* signing keys, of a batch that holds valid and invalid entries completes
\* without raising and hands the store the signature of every valid entry,
\* and of no other, in one store_e2e_device_signatures call.
C15_BestEffortBatch ==
    (/\ last.op = "upload_signatures_for_device_keys"
     /\ ssk[last.user] # None
     /\ usk[last.user] # None
     /\ ValidEntries(last.user, last.req) # {}
     /\ ValidEntries(last.user, last.req) # EntriesOf(last.req))
    => /\ last.status = 200
       /\ last.stored = SignaturesOf(last.user, last.req,
                                     ValidEntries(last.user, last.req))

\* C21: an upload_signing_keys_for_user call that raises, for whatever
\* reason, changes neither the stored self-signing key nor the stored
\* user-signing key; a call that succeeds writes exactly the slots whose key
\* the request supplied, with the supplied key.
C21_BothSlotsOrNeither ==
    [][IsSigningUpload(last') =>
          LET u == last'.user IN
          /\ last'.status # 200 => ssk' = ssk /\ usk' = usk
          /\ last'.status = 200 =>
                /\ ssk' = IF SuppliesSelfSigningKey(last')
                          THEN [ssk EXCEPT ![u] = last'.req.self_signing_key]
                          ELSE ssk
                /\ usk' = IF SuppliesUserSigningKey(last')
                          THEN [usk EXCEPT ![u] = last'.req.user_signing_key]
                          ELSE usk]_vars

\* a call with an acceptable first self-signing key and a user-signing key
\* that is not acceptable was rejected, and nothing is stored
C21_Witness ==
    /\ SuppliesSelfSigningKey(last) /\ SuppliesUserSigningKey(last)
    /\ last.status = 400
    /\ last.msg \in {"Invalid user-signing key",
                     "Invalid signature on user-signing key"}
    /\ ~last.had_old_key
    /\ ssk[last.user] = None /\ usk[last.user] = None

\* C22: when one call supplies both keys, the user-signing key is checked
\* against the self-signing key of that call: a user-signing key that does
\* not carry a signature verifying under the supplied key (one signed only
\* by the key being replaced, say) is rejected and not stored, and one that
\* does is accepted along with an acceptable self-signing key and becomes
\* the stored user-signing key as a whole.
C22_CheckedAgainstSuppliedKey ==
    [][(SuppliesSelfSigningKey(last') /\ SuppliesUserSigningKey(last')) =>
          LET u == last'.user
              new == last'.req.self_signing_key
              v == last'.req.user_signing_key
              self_ok == /\ StructurallyValid(new, u)
                         /\ CheckSelfSigningKey(u, new, ssk[u]).status = 200
              user_ok == /\ v.user_id = u
                         /\ "user_signing" \in v.usage
                         /\ SignatureVerifies(v, u, new)
          IN  /\ (self_ok /\ ~user_ok) => last'.status = 400 /\ usk' = usk
              /\ (self_ok /\ user_ok) => /\ last'.status = 200
                                         /\ usk'[u] = v
                                         /\ ssk'[u] = new]_vars

\* the stored key A was replaced by B in a call whose user-signing key is
\* signed by B and took the place of one signed by A
C22_Witness ==
    /\ SuppliesSelfSigningKey(last) /\ SuppliesUserSigningKey(last)
    /\ last.status = 200 /\ last.had_old_key
    /\ ssk[last.user] = last.req.self_signing_key
    /\ "replaces" \in DOMAIN ssk[last.user]
    /\ ssk[last.user].replaces # BareId(StoredKeyId(ssk[last.user]))
    /\ usk[last.user] = last.req.user_signing_key
    /\ SignatureVerifies(usk[last.user], last.user, ssk[last.user])

\* a call that replaced nothing: its user-signing key is signed by the key
\* being replaced only
C22_WitnessOldSigner ==
    /\ SuppliesSelfSigningKey(last) /\ SuppliesUserSigningKey(last)
    /\ last.status = 400 /\ last.had_old_key
    /\ last.msg = "Invalid signature on user-signing key"
    /\ ssk[last.user] # None
    /\ ssk[last.user] # last.req.self_signing_key
    /\ SignatureVerifies(last.req.user_signing_key, last.user, ssk[last.user])

\* C23: a self_signing_key whose user_id is not the caller's, whose usage
\* lacks "self_signing", or whose `keys` is missing or does not hold exactly
\* one verify key is rejected with a 400 and not stored; so every stored
\* self-signing key has the owner's user_id, the self_signing usage and
\* exactly one verify key.
C23_StructureEnforced ==
    /\ [][(SuppliesSelfSigningKey(last')
           /\ ~StructurallyValid(last'.req.self_signing_key, last'.user))
          => (last'.status = 400 /\ ssk' = ssk)]_vars
    /\ [](\A u \in DOMAIN ssk : ssk[u] # None => StructurallyValid(ssk[u], u))

\* a key with two verify keys was offered in place of a stored key, and
\* refused
C23_Witness ==
    /\ SuppliesSelfSigningKey(last)
    /\ last.req.self_signing_key.user_id = last.user
    /\ "keys" \in DOMAIN last.req.self_signing_key
    /\ Cardinality(DOMAIN last.req.self_signing_key.keys) = 2
    /\ last.status = 400
    /\ last.had_old_key

\* a key without `keys` was offered as the first key, and refused
C23_WitnessFirstKey ==
    /\ SuppliesSelfSigningKey(last)
    /\ "keys" \notin DOMAIN last.req.self_signing_key
    /\ last.status = 400 /\ last.msg = "Invalid key"
    /\ ~last.had_old_key

IsUpload(call) == call.op = "upload_keys_for_user"

\* the positions of a call in the trace of calls
PositionsOf(calls, name) == {i \in DOMAIN calls : calls[i] = name}

\* C24: upload_keys_for_user sends the device-list-changed notification
\* exactly when the request carries device_keys and the object written
\* differs from the one stored before; an identical re-upload and an upload
\* of one-time keys only send none.
C24_NotifyOnChangeOnly ==
    [][IsUpload(last') =>
          LET u == last'.user
              d == last'.device
              dk == last'.req.device_keys
              sent == PositionsOf(last'.calls, "notify_device_update")
          IN  /\ sent # {} <=> (dk # NoDeviceKeys /\ device_keys[u][d] # dk)
              /\ Cardinality(sent) <= 1
              /\ last'.notified <=> sent # {}
              /\ sent # {} <=> device_keys'[u][d] # device_keys[u][d]]_vars

\* stored device keys were uploaded again unchanged, and nobody was notified
C24_Witness ==
    /\ IsUpload(last)
    /\ last.req.device_keys # NoDeviceKeys
    /\ PositionsOf(last.calls, "set_e2e_device_keys") # {}
    /\ ~last.notified

\* stored device keys were replaced by different ones, with a notification
C24_WitnessChanged ==
    /\ IsUpload(last)
    /\ last.req.device_keys = "dk2"
    /\ last.notified
    /\ otk[last.user][last.device] # << >>

\* C25: every upload_keys_for_user call that returns a result has called
\* check_device_registered once, after each of its key writes and before
\* reading the counts it returns, whether the request held device keys,
\* one-time keys, both or neither; the counts are those of the pool the call
\* leaves.
C25_DeviceCheckedBeforeReturn ==
    (IsUpload(last) /\ last.status = 200) =>
        LET checks == PositionsOf(last.calls, "check_device_registered")
            counts == PositionsOf(last.calls, "count_e2e_one_time_keys")
            writes == PositionsOf(last.calls, "set_e2e_device_keys")
                      \cup PositionsOf(last.calls, "add_e2e_one_time_keys")
        IN  /\ Cardinality(checks) = 1
            /\ Cardinality(counts) = 1
            /\ \A c \in checks :
                  /\ \A w \in writes : w < c
                  /\ \A r \in counts : c < r
            /\ last.checked
            /\ last.res.one_time_key_counts
                 = count_e2e_one_time_keys(otk[last.user][last.device])

\* a request with neither device keys nor one-time keys returned the counts
\* of a pool that holds keys
C25_Witness ==
    /\ IsUpload(last) /\ last.status = 200
    /\ last.req.device_keys = NoDeviceKeys
    /\ last.req.one_time_keys = << >>
    /\ otk[last.user][last.device] # << >>

\* a request with both returned
C25_WitnessBoth ==
    /\ IsUpload(last) /\ last.status = 200
    /\ PositionsOf(last.calls, "set_e2e_device_keys") # {}
    /\ PositionsOf(last.calls, "add_e2e_one_time_keys") # {}

\* the requested remote users of a domain that the cache does not hold
CacheMisses(call, domain) ==
    {u \in DOMAIN call.req :
        /\ ~is_mine(u)
        /\ get_domain_from_id(u) = domain
        /\ u \notin DOMAIN call.cache}

\* the federation requests of the call that went to the destination
SentTo(call, destination) ==
    {request \in DOMAIN call.sent : request[1] = destination}

\* C26: in query_devices a remote user found in the device-list cache is
\* answered from the cache; a destination is sent a request if and only if
\* some requested user of its domain is not in the cache, it is sent one
\* request in the call, and the request names the users of that domain that
\* are not in the cache, each with the device list the caller asked for.
C26_OnlyCacheMissesQueried ==
    IsQuery(last) =>
        /\ \A domain \in {get_domain_from_id(u) : u \in DOMAIN last.req}
                            \cup {request[1] : request \in DOMAIN last.sent} :
              /\ SentTo(last, domain) # {} <=> CacheMisses(last, domain) # {}
              /\ \A request \in SentTo(last, domain) :
                    /\ last.sent[request] = 1
                    /\ request[2] = [device_keys |->
                                        [u \in CacheMisses(last, domain) |-> last.req[u]]]
              /\ Cardinality(SentTo(last, domain)) <= 1
        /\ DOMAIN last.fed = {request[1] : request \in DOMAIN last.sent}
        /\ \A u \in DOMAIN last.req \cap DOMAIN last.cache :
              /\ u \in DOMAIN last.res.device_keys
              /\ \A d \in DOMAIN last.res.device_keys[u] :
                    last.res.device_keys[u][d].keys = last.cache[u][d].keys

\* two users of one remote server were asked for, one of them cached: the
\* server was asked about the other one only, and answered
C26_Witness ==
    /\ IsQuery(last)
    /\ {"@rita:remote", "@mallory:remote"} \subseteq DOMAIN last.req
    /\ DOMAIN last.cache = {"@rita:remote"}
    /\ SentTo(last, "remote") # {}
    /\ last.fed["remote"].ok
    /\ last.req["@mallory:remote"] = {"rdev"}

\* every remote user asked for was cached: nothing was sent
C26_WitnessAllCached ==
    /\ IsQuery(last)
    /\ {"@rita:remote", "@zoe:elsewhere"} \subseteq DOMAIN last.cache
    /\ DOMAIN last.sent = {}

\* what a destination answered, user by user, when its call returned
AnswerOf(call, destination) ==
    IF ~call.fed[destination].ok THEN << >>
    ELSE IF call.op = "query_devices" THEN call.fed[destination].device_keys
    ELSE call.fed[destination].one_time_keys

\* the per-user part of what the call returned
ReturnedEntries(call) ==
    IF call.op = "query_devices" THEN call.res.device_keys
    ELSE call.res.one_time_keys

\* the users that were asked of the destination in the call
AskedOf(call, destination) ==
    {u \in DOMAIN call.req :
        /\ get_domain_from_id(u) = destination
        /\ call.op = "query_devices" => u \notin DOMAIN call.cache}

\* the outcomes of the call's federation requests, each answer cut down to
\* the users that were asked of its destination
AskedOnly(call) ==
    [destination \in DOMAIN call.fed |->
        LET asked == AskedOf(call, destination) \cap DOMAIN AnswerOf(call, destination)
        IN  IF ~call.fed[destination].ok THEN call.fed[destination]
            ELSE IF call.op = "query_devices"
            THEN [ok |-> TRUE,
                  device_keys |-> [u \in asked |-> call.fed[destination].device_keys[u]]]
            ELSE [ok |-> TRUE,
                  one_time_keys |-> [u \in asked |-> call.fed[destination].one_time_keys[u]]]]

\* C29: in query_devices and claim_one_time_keys a remote server's answer
\* contributes only entries of users that were asked of that server: every
\* user id returned is a user id of the request, and the call returns what
\* it would return had every answer held no other users, so an answer never
\* sets or replaces the entry of a local user or of another domain's user.
C29_AnswersOnlyForAskedUsers ==
    [][(IsQuery(last') \/ IsClaim(last')) =>
          /\ DOMAIN ReturnedEntries(last') \subseteq DOMAIN last'.req
          /\ \A order \in CompletionOrders(DOMAIN last'.fed) :
                IF last'.op = "query_devices"
                THEN last'.res = QueryResult(last'.req, last'.cache,
                                             AskedOnly(last'), order)
                ELSE last'.res = ClaimResult(last'.req, AskedOnly(last'),
                                             last'.picked, order)]_vars

\* a claim for a local user and the user of one server: the server answered
\* with keys for every user it knows of, and the local user got the key of
\* the local pool
C29_Witness ==
    /\ IsClaim(last)
    /\ DOMAIN last.req = {"@boris:test", "@rita:remote"}
    /\ last.fed["remote"].ok
    /\ {"@boris:test", "@zoe:elsewhere"} \subseteq DOMAIN AnswerOf(last, "remote")
    /\ "@boris:test" \in DOMAIN last.res.one_time_keys
    /\ "@rita:remote" \in DOMAIN last.res.one_time_keys

\* the same for a device query, the answer naming a user nobody asked for
C29_WitnessQuery ==
    /\ IsQuery(last)
    /\ DOMAIN last.req = {"@rita:remote"}
    /\ last.fed["remote"].ok
    /\ "@zoe:elsewhere" \in DOMAIN AnswerOf(last, "remote")
    /\ DOMAIN last.res.device_keys = {"@rita:remote"}

\* the local one-time keys in the result a caller got: <<user, device, key id>>
ReturnedTo(caller) ==
    IF inflight[caller].pc # "returned" \/ inflight[caller].op # "claim_one_time_keys"
    THEN {}
    ELSE LET r == inflight[caller].res.one_time_keys IN
         UNION { UNION { {<<u, d, k>> : k \in DOMAIN r[u][d]} : d \in DOMAIN r[u] } :
                 u \in {x \in DOMAIN r : is_mine(x)} }

\* C27: with a store whose claim takes a key out of the pool in one step,
\* however the steps of concurrent claim_one_time_keys calls for the same
\* user, device and algorithm interleave, no one-time key of the pool is in
\* the results of two callers.
C27_OneCallerPerKey ==
    \A c1 \in Callers, c2 \in Callers :
        c1 # c2 => ReturnedTo(c1) \cap ReturnedTo(c2) = {}

\* the pool held one key and two callers claimed it, the first of them
\* asking a remote server as well: both have returned, one with the key and
\* one without
C27_Witness ==
    /\ \A caller \in Callers : inflight[caller].pc = "returned"
    /\ ReturnedTo("c1") # {} /\ ReturnedTo("c2") = {}
    /\ "@boris:test" \in DOMAIN inflight["c2"].req
    /\ inflight["c1"].dispatched # {}
    /\ otk["@boris:test"]["xyz"] = << >>

\* the pool held two keys, and each caller got one of them
C27_WitnessTwoKeys ==
    /\ \A caller \in Callers : inflight[caller].pc = "returned"
    /\ ReturnedTo("c1") # {} /\ ReturnedTo("c2") # {}

\* what the destination answered for the users asked of it
AnsweredFor(call, destination) ==
    LET outcome == call.answered[destination]
        answer == IF call.op = "query_devices" THEN outcome.device_keys
                  ELSE outcome.one_time_keys
    IN  [u \in {x \in DOMAIN answer :
                  /\ x \in DOMAIN call.req
                  /\ get_domain_from_id(x) = destination
                  /\ call.op = "query_devices" => x \notin DOMAIN call.cache} |->
            answer[u]]

\* the destination is accounted for in the result: its answer's entries for
\* the users asked of it are returned and it has no failure, or its
\* exception is its entry of failures
AccountedFor(call, destination) ==
    LET outcome == call.answered[destination]
        returned == IF call.op = "query_devices" THEN call.res.device_keys
                    ELSE call.res.one_time_keys
    IN  IF outcome.ok
        THEN /\ destination \notin DOMAIN call.res.failures
             /\ \A u \in DOMAIN AnsweredFor(call, destination) :
                   u \in DOMAIN returned
                   /\ returned[u] = AnsweredFor(call, destination)[u]
        ELSE /\ destination \in DOMAIN call.res.failures
             /\ call.res.failures[destination] = _exception_to_failure(outcome.exc)

\* C28: query_devices and claim_one_time_keys return only after the
\* federation call of every destination they dispatched has completed, with
\* an answer or an exception (a time-out among them), and then every such
\* destination is accounted for, by the entries it answered or by its entry
\* of failures; and if every federation call completes or fails in the end,
\* a call that has dispatched its federation calls returns in the end.
C28_AwaitsAll ==
    /\ [](\A caller \in FanOutCallers :
             inflight[caller].pc = "returned" =>
                /\ DOMAIN inflight[caller].answered = inflight[caller].dispatched
                /\ \A destination \in inflight[caller].dispatched :
                      AccountedFor(inflight[caller], destination))
    /\ \A caller \in FanOutCallers :
          (inflight[caller].pc = "awaiting") ~> (inflight[caller].pc = "returned")

\* a device query to two servers has returned: one answered, the other's
\* call timed out
C28_Witness ==
    /\ inflight["c1"].pc = "returned"
    /\ inflight["c1"].op = "query_devices"
    /\ inflight["c1"].dispatched = {"remote", "elsewhere"}
    /\ inflight["c1"].answered["remote"].ok
    /\ ~inflight["c1"].answered["elsewhere"].ok
    /\ inflight["c1"].answered["elsewhere"].exc.msg = "Timed out"
    /\ "@rita:remote" \in DOMAIN inflight["c1"].res.device_keys

\* a claim waits for the second of two servers, the first having answered
C28_WitnessWaiting ==
    /\ inflight["c1"].pc = "awaiting"
    /\ inflight["c1"].op = "claim_one_time_keys"
    /\ inflight["c1"].dispatched = {"remote", "elsewhere"}
    /\ DOMAIN inflight["c1"].answered = {"remote"}

\* C30 (as claimed): however the steps of concurrent
\* upload_signing_keys_for_user calls of one user interleave, a self-signing
\* key that is written over a stored one names, in `replaces`, the bare id
\* of the key that is stored at the moment of the write.
C30_ChainPreserved ==
    [][\A u \in DOMAIN ssk :
          (ssk[u] # None /\ ssk'[u] # ssk[u])
          => ReplacesStored(ssk'[u], ssk[u])]_vars

\* the key ids a call of upload_keys_for_user has staged as new keys, or has
\* inserted
StagedBy(caller) ==
    IF inflight[caller].pc \in {"staged", "returned"}
       /\ inflight[caller].op = "upload_keys_for_user"
    THEN inflight[caller].new_keys ELSE << >>

\* C31 (as claimed): however the steps of two concurrent upload_keys_for_user
\* calls for one user and device interleave, the two calls never both stage,
\* as a new key, the same algorithm and key id with values that do not match:
\* at most one of the two values is accepted.
C31_OneValuePerKeyId ==
    \A c1 \in Callers, c2 \in Callers :
        \A k \in (DOMAIN StagedBy(c1)) \cap (DOMAIN StagedBy(c2)) :
            _one_time_keys_match(StagedBy(c1)[k], json_loads(StagedBy(c2)[k]))

====
